---- MODULE Spec2Model ----
(***************************************************************************)
(* A model of the go-fissio pipeline execution engine: the graph engine    *)
(* (engine/engine.go), the node executor with its worker loop              *)
(* (engine/executor.go) and the unified client's provider routing          *)
(* (llm/unified.go).  Strings of the program are TLA+ strings; a model     *)
(* name, whose prefix the router inspects, is a sequence of characters.    *)
(***************************************************************************)
EXTENDS Integers, Sequences, FiniteSets, TLC

VARIABLES
    pipeline,   \* the PipelineConfig the engine was built for
    input,      \* the input string of Engine.Run
    mock,       \* which replies the model server gives
    run,        \* the locals of each Engine.Run call, by run
    wNode, wInput, wScript, wCtxDone, wPc, wResult,   \* one executeWorker call
    rClient, rModel, rPc, rOut,                       \* one resolveClient call
    traces,     \* the rows of the trace store's table, by trace_id
    pipelines,  \* the rows of the pipeline store's table, by id
    sOut,       \* the last store operation and what it returned
    hReq,       \* the chat request the handler received
    hPc,        \* where the chat handler is
    sse,        \* the events the handler wrote to the response
    mDefault,   \* ModelResolver.defaultModel
    mOverrides, \* ModelResolver.overrides
    mOut,       \* the last resolver operation and what it returned
    collector,  \* Engine.collector, shared by the runs of the engine
    strm,       \* one ChatStreamWithMessages call: its goroutine and channel
    reg,        \* a tools.Registry: its lock and its map
    regT,       \* the goroutines calling the registry
    coll,       \* an InMemoryCollector and the clock
    cOut        \* the last collector operation and what it returned

evars == <<pipeline, input, mock, run, collector>>
wvars == <<wNode, wInput, wScript, wCtxDone, wPc, wResult>>
rvars == <<rClient, rModel, rPc, rOut>>
svars == <<traces, pipelines, sOut>>
hvars == <<hReq, hPc, sse>>
mvars == <<mDefault, mOverrides, mOut>>
tvars == <<strm>>
gvars == <<reg, regT>>
cvars == <<coll, cOut>>
nvars == <<tvars, gvars, cvars>>
vars == <<evars, wvars, rvars, svars, hvars, mvars, nvars>>

(***************************************************************************)
(* Bounds of the model.                                                    *)
(***************************************************************************)
MaxNodes == 4      \* a pipeline declares the first 0..MaxNodes ids of IdPool
MaxEdges == 4      \* a pipeline declares at most MaxEdges edges of EdgePool
MaxIterCfg == 3    \* a worker's configured max_iter ranges over -1..MaxIterCfg
MaxCalls == 2      \* a model response carries at most MaxCalls tool calls
MaxScript == 1     \* scripted model turns before the repeated tail response
MaxLoopNodes == 2  \* declared nodes of the pipelines with loops
MaxBody == 2       \* lines of the body of a native streaming response
MaxCollOps == 4    \* Record, Flush and Reset calls the collector specification makes
MaxRegOps == 2     \* registry calls each goroutine of the registry specification makes

(***************************************************************************)
(* monitor: node metrics and the collectors.  Durations and times are      *)
(* ticks of a clock.                                                       *)
(***************************************************************************)
\* an empty table, an empty map
NoRows == [id \in {} |-> id]

\* monitor.NodeMetrics
NodeMetrics(nodeID, tokensIn, tokensOut, duration, success) ==
    [NodeID |-> nodeID, TokensIn |-> tokensIn, TokensOut |-> tokensOut,
     Duration |-> duration, Success |-> success, Error |-> ""]

\* monitor.PipelineMetrics
PipelineMetrics(pipelineID, totalTokens, totalDuration, nodeMetrics, startTime, endTime) ==
    [PipelineID |-> pipelineID, TotalTokens |-> totalTokens,
     TotalDuration |-> totalDuration, NodeMetrics |-> nodeMetrics,
     StartTime |-> startTime, EndTime |-> endTime]

\* a nil MetricsCollector
NilCollector == [kind |-> "nil"]

NewInMemoryCollector(pipelineID, now) ==
    [kind |-> "memory", pipelineID |-> pipelineID, metrics |-> NoRows, startTime |-> now]

NewNoOpCollector == [kind |-> "noop"]

\* Record that keeps the first metrics recorded for a node
RecordKeepFirst(c, metrics) ==
    IF c.kind # "memory" THEN c
    ELSE [c EXCEPT !.metrics = @ @@ (metrics.NodeID :> metrics)]

\* InMemoryCollector.Record, NoOpCollector.Record
Record(c, metrics) ==
    IF c.kind # "memory" THEN c
    ELSE [c EXCEPT !.metrics = (metrics.NodeID :> metrics) @@ @]

\* the loop of Flush: the sum of one quantity over the recorded metrics
RECURSIVE SumMetrics(_, _, _)
SumMetrics(metrics, ids, field) ==
    IF ids = {} THEN 0
    ELSE LET k == CHOOSE id \in ids : TRUE
         IN  (IF field = "tokens" THEN metrics[k].TokensIn + metrics[k].TokensOut
              ELSE metrics[k].Duration)
               + SumMetrics(metrics, ids \ {k}, field)

\* Flush that counts the input tokens only
FlushTokensIn(c, now) ==
    IF c.kind # "memory" THEN PipelineMetrics("", 0, 0, NoRows, 0, 0)
    ELSE LET nodeMetrics == [k \in DOMAIN c.metrics |->
                                [c.metrics[k] EXCEPT !.TokensOut = 0]]
         IN  PipelineMetrics(c.pipelineID,
                 SumMetrics(nodeMetrics, DOMAIN nodeMetrics, "tokens"),
                 SumMetrics(c.metrics, DOMAIN c.metrics, "duration"),
                 c.metrics, c.startTime, now)

\* InMemoryCollector.Flush, NoOpCollector.Flush
Flush(c, now) ==
    IF c.kind # "memory" THEN PipelineMetrics("", 0, 0, NoRows, 0, 0)
    ELSE LET nodeMetrics == [k \in DOMAIN c.metrics |-> c.metrics[k]]
         IN  PipelineMetrics(c.pipelineID,
                 SumMetrics(nodeMetrics, DOMAIN nodeMetrics, "tokens"),
                 SumMetrics(nodeMetrics, DOMAIN nodeMetrics, "duration"),
                 nodeMetrics, c.startTime, now)

\* InMemoryCollector.Reset
Reset(c, now) == [c EXCEPT !.metrics = NoRows, !.startTime = now]

(***************************************************************************)
(* core/errors.go: sentinel errors and AgentError.                         *)
(***************************************************************************)
ErrNodeNotFound == "node not found"
ErrToolNotFound == "tool not found"
ErrMaxIterations == "max iterations exceeded"
\* errors that come from collaborators of the engine
ErrProvider == "provider request failed"
ErrCanceled == "context canceled"

NewAgentError(op, node, err) == [Op |-> op, Node |-> node, Err |-> err]
NoError == [Op |-> "", Node |-> "", Err |-> ""]

(***************************************************************************)
(* core: messages and tool results.                                        *)
(***************************************************************************)
NewUserMessage(content) == [Role |-> "user", Content |-> content, ToolCallID |-> ""]
NewAssistantMessage(content) == [Role |-> "assistant", Content |-> content, ToolCallID |-> ""]
NewToolMessage(toolCallID, content) == [Role |-> "tool", Content |-> content, ToolCallID |-> toolCallID]

NewToolResult(toolCallID, content) ==
    [ToolCallID |-> toolCallID, Content |-> content, IsError |-> FALSE]
NewToolError(toolCallID, errMsg) ==
    [ToolCallID |-> toolCallID, Content |-> errMsg, IsError |-> TRUE]

(***************************************************************************)
(* The tools of the environment.  DefaultRegistry holds the registered     *)
(* names; ToolExecute is what a registered tool's Execute returns.         *)
(***************************************************************************)
DefaultRegistry == {"echo", "flaky", "other"}

ToolExecute(name, args) ==
    IF name = "flaky"
    THEN [result |-> "", err |-> "boom"]
    ELSE [result |-> args, err |-> ""]

\* GetMultiple that leaves out the names the registry does not have
GetMultiplePresent(registry, names) ==
    [tools |-> SelectSeq(names, LAMBDA n : n \in registry), err |-> NoError]

\* Registry.GetMultiple: the tools named, or ErrToolNotFound when one is absent
GetMultiple(registry, names) ==
    IF \E i \in 1..Len(names) : names[i] \notin registry
    THEN [tools |-> <<>>, err |-> NewAgentError("registry.get", "", ErrToolNotFound)]
    ELSE [tools |-> names, err |-> NoError]

(***************************************************************************)
(* The model server as the executor sees it: a script gives the response   *)
(* of each successive ChatWithTools / Chat call of one node execution.     *)
(***************************************************************************)
ToolCall(id, name) == [ID |-> id, Name |-> name, Arguments |-> "x"]

Reply(content, pin, pout) ==
    [err |-> "", Content |-> content, ToolCalls |-> <<>>,
     PromptTokens |-> pin, CompletionTokens |-> pout]
ReplyCalls(names) ==
    [err |-> "", Content |-> "thinking",
     ToolCalls |-> [j \in 1..Len(names) |-> ToolCall("call_" \o ToString(j), names[j])],
     PromptTokens |-> 3, CompletionTokens |-> 2]
ReplyError(e) ==
    [err |-> e, Content |-> "", ToolCalls |-> <<>>,
     PromptTokens |-> 0, CompletionTokens |-> 0]

HasToolCalls(resp) == Len(resp.ToolCalls) > 0

ResponseAt(script, turn) ==
    IF turn <= Len(script.head) THEN script.head[turn] ELSE script.tail

\* a client call under ctx: a cancelled context fails the request
ChatWithTools(ctxDone, script, turn) ==
    IF ctxDone THEN ReplyError(ErrCanceled) ELSE ResponseAt(script, turn)

(***************************************************************************)
(* engine/executor.go: the worker loop.                                    *)
(***************************************************************************)
DefaultMaxIter == 10

EmptyOutput ==
    [NodeID |-> "", Content |-> "", NextNodes |-> <<>>, TokensIn |-> 0, TokensOut |-> 0]

\* a tool failure reported as an ordinary result
executeSingleToolCallNoFlag(call, toolMap) ==
    IF call.Name \notin toolMap
    THEN [res |-> NewToolResult(call.ID, "tool not found: " \o call.Name), ran |-> FALSE]
    ELSE LET r == ToolExecute(call.Name, call.Arguments)
         IN  [res |-> NewToolResult(call.ID, r.result), ran |-> TRUE]

\* a tool looked up in the registry instead of the node's own tools
executeSingleToolCallAnyTool(call, toolMap) ==
    IF call.Name \notin DefaultRegistry
    THEN [res |-> NewToolError(call.ID, "tool not found: " \o call.Name), ran |-> FALSE]
    ELSE LET r == ToolExecute(call.Name, call.Arguments)
         IN  IF r.err # ""
             THEN [res |-> NewToolError(call.ID, r.err), ran |-> TRUE]
             ELSE [res |-> NewToolResult(call.ID, r.result), ran |-> TRUE]

executeSingleToolCall(call, toolMap) ==
    IF call.Name \notin toolMap
    THEN [res |-> NewToolError(call.ID, "tool not found: " \o call.Name), ran |-> FALSE]
    ELSE LET r == ToolExecute(call.Name, call.Arguments)
         IN  IF r.err # ""
             THEN [res |-> NewToolError(call.ID, r.err), ran |-> TRUE]
             ELSE [res |-> NewToolResult(call.ID, r.result), ran |-> TRUE]

executeToolCalls(calls, nodeTools) ==
    LET toolMap == {nodeTools[i] : i \in 1..Len(nodeTools)}
    IN  [i \in 1..Len(calls) |-> executeSingleToolCall(calls[i], toolMap)]

\* tool messages appended last result first
ToolMessagesReversed(execs) ==
    [j \in 1..Len(execs) |->
        NewToolMessage(execs[Len(execs) + 1 - j].res.ToolCallID,
                       execs[Len(execs) + 1 - j].res.Content)]

ToolMessages(execs) ==
    [j \in 1..Len(execs) |-> NewToolMessage(execs[j].res.ToolCallID, execs[j].res.Content)]

\* a loop bound that is inclusive by mistake (for i := 0; i <= maxIter; i++)
EffectiveMaxIterInclusive(node) ==
    IF node.MaxIter <= 0 THEN DefaultMaxIter + 1 ELSE node.MaxIter + 1

\* a loop bound taken from the config as it is
EffectiveMaxIterRaw(node) == node.MaxIter

EffectiveMaxIter(node) == IF node.MaxIter <= 0 THEN DefaultMaxIter ELSE node.MaxIter

\* a running total that keeps the last turn's usage only
AddUsageLast(total, tokens) == tokens

\* totalIn += resp.Usage.PromptTokens, totalOut += resp.Usage.CompletionTokens
AddUsage(total, tokens) == total + tokens

RECURSIVE workerLoop(_, _, _, _, _, _)
workerLoop(node, nodeTools, ctxDone, script, maxIter, st) ==
    IF st.i >= maxIter
    THEN [err |-> NewAgentError("executor.worker", node.ID, ErrMaxIterations),
          out |-> EmptyOutput, turns |-> st.turns, msgs |-> st.msgs]
    ELSE
      LET resp == ChatWithTools(ctxDone, script, st.i + 1)
          totalIn == AddUsage(st.totalIn, resp.PromptTokens)
          totalOut == AddUsage(st.totalOut, resp.CompletionTokens)
      IN
      IF resp.err # ""
      THEN [err |-> NewAgentError("executor.worker", node.ID, resp.err),
            out |-> EmptyOutput,
            turns |-> Append(st.turns, [request |-> st.msgs, resp |-> resp, execs |-> <<>>]),
            msgs |-> st.msgs]
      ELSE IF ~HasToolCalls(resp)
      THEN [err |-> NoError,
            out |-> [EmptyOutput EXCEPT !.Content = resp.Content,
                                        !.TokensIn = totalIn, !.TokensOut = totalOut],
            turns |-> Append(st.turns, [request |-> st.msgs, resp |-> resp, execs |-> <<>>]),
            msgs |-> st.msgs]
      ELSE
        LET execs == executeToolCalls(resp.ToolCalls, nodeTools)
            msgs2 == Append(st.msgs, NewAssistantMessage(resp.Content)) \o ToolMessages(execs)
        IN  workerLoop(node, nodeTools, ctxDone, script, maxIter,
                       [i |-> st.i + 1, msgs |-> msgs2,
                        totalIn |-> totalIn, totalOut |-> totalOut,
                        turns |-> Append(st.turns,
                                   [request |-> st.msgs, resp |-> resp, execs |-> execs])])

executeWorker(node, nodeInput, registry, ctxDone, script) ==
    LET got == GetMultiple(registry, node.Tools)
    IN  IF got.err # NoError
        THEN [err |-> got.err, out |-> EmptyOutput, turns |-> <<>>, msgs |-> <<>>]
        ELSE workerLoop(node, got.tools, ctxDone, script, EffectiveMaxIter(node),
                        [i |-> 0, msgs |-> <<NewUserMessage(nodeInput.Content)>>,
                         totalIn |-> 0, totalOut |-> 0, turns |-> <<>>])

(***************************************************************************)
(* The worker configurations and model scripts the worker specification    *)
(* draws from.                                                             *)
(***************************************************************************)
CallNames == {"echo", "flaky", "ghost"}

SeqsUpTo(S, n) == UNION {[1..k -> S] : k \in 0..n}

CallResponses == {ReplyCalls(names) : names \in SeqsUpTo(CallNames, MaxCalls) \ {<<>>}}
FinalResponse == Reply("done", 5, 4)
TailResponses ==
    {FinalResponse, ReplyError(ErrProvider)} \cup {ReplyCalls(<<n>>) : n \in CallNames}

Scripts == {[head |-> h, tail |-> t] : h \in SeqsUpTo(CallResponses, MaxScript), t \in TailResponses}

ToolLists == {<<>>, <<"echo">>, <<"echo", "flaky">>, <<"echo", "nosuch">>}

\* config.NewNodeConfig: a worker starts with MaxIter 10
NewNodeConfig(id, nodeType) ==
    [ID |-> id, Type |-> nodeType, Tools |-> <<>>,
     MaxIter |-> IF nodeType = "worker" THEN 10 ELSE 0, TargetNodes |-> <<>>]

\* NodeBuilder.Tools and NodeBuilder.MaxIterations applied to a new worker
\* config; a config loaded from JSON carries its max_iter, 0 when omitted
WorkerNode(id, tools, maxIter) ==
    [NewNodeConfig(id, "worker") EXCEPT !.Tools = tools, !.MaxIter = maxIter]

\* the MaxIter of a worker config: what NewNodeConfig set (so too in a
\* pipeline built from an HTTP request), or any integer MaxIterations or JSON
\* put there
WorkerMaxIters == {NewNodeConfig("w", "worker").MaxIter} \cup ((-1)..MaxIterCfg)

NoResult == [err |-> NoError, out |-> EmptyOutput, turns |-> <<>>, msgs |-> <<>>]

WorkerInit ==
    /\ wNode \in {WorkerNode("w", t, m) : t \in ToolLists, m \in WorkerMaxIters}
    /\ wInput = [NodeID |-> "w", Content |-> "task", Sources |-> <<>>]
    /\ wScript \in Scripts
    /\ wCtxDone = FALSE
    /\ wPc = "ready"
    /\ wResult = NoResult

\* the context is cancelled before the worker starts
WorkerCancel ==
    /\ wPc = "ready"
    /\ ~wCtxDone
    /\ wCtxDone' = TRUE
    /\ UNCHANGED <<wNode, wInput, wScript, wPc, wResult, evars, rvars, svars, hvars, mvars, nvars>>

WorkerRun ==
    /\ wPc = "ready"
    /\ wResult' = executeWorker(wNode, wInput, DefaultRegistry, wCtxDone, wScript)
    /\ wPc' = "done"
    /\ UNCHANGED <<wNode, wInput, wScript, wCtxDone, evars, rvars, svars, hvars, mvars, nvars>>


(***************************************************************************)
(* Properties of the worker loop.                                          *)
(***************************************************************************)
WorkerDone == wPc = "done"
WorkerTurns == Len(wResult.turns)
\* the bound the node was configured with: max_iter when positive, else 10
WorkerBound == IF wNode.MaxIter > 0 THEN wNode.MaxIter ELSE 10
DeclaredTools == {wNode.Tools[i] : i \in 1..Len(wNode.Tools)}

\* C2: a worker that succeeds made at most max_iter ChatWithTools calls; a
\* worker that fails with ErrMaxIterations made exactly max_iter calls and
\* every one of their responses carried at least one tool call.
C2_WorkerTermination ==
    WorkerDone =>
      /\ (wResult.err = NoError =>
            /\ WorkerTurns >= 1
            /\ WorkerTurns <= WorkerBound)
      /\ (wResult.err.Err = ErrMaxIterations =>
            /\ WorkerTurns = WorkerBound
            /\ \A t \in 1..WorkerTurns : Len(wResult.turns[t].resp.ToolCalls) >= 1)

\* a worker left at the default bound exhausts it
C2_Witness ==
    /\ WorkerDone
    /\ wNode.MaxIter <= 0
    /\ wResult.err.Err = ErrMaxIterations
    /\ WorkerTurns = 10

\* the text a failing tool call feeds back
ToolFailureText(call) ==
    IF call.Name \notin DeclaredTools
    THEN "tool not found: " \o call.Name
    ELSE ToolExecute(call.Name, call.Arguments).err

ToolCallFails(call) ==
    \/ call.Name \notin DeclaredTools
    \/ ToolExecute(call.Name, call.Arguments).err # ""

\* the history handed to the model turn after turn t (the final history
\* when turn t was the last one)
HistoryAfter(t) ==
    IF t < WorkerTurns THEN wResult.turns[t + 1].request ELSE wResult.msgs

\* C8: a tool call naming a tool the node does not have, or whose Execute
\* fails, yields an error-marked tool result carrying the error text; the
\* result is appended to the history under the call's id, the worker goes
\* on to the next model turn while the bound allows one, and the worker
\* itself fails only by a model-call error or by exhausting its bound.
C8_ToolErrorsFedBack ==
    WorkerDone =>
      /\ \A t \in 1..WorkerTurns :
           LET turn == wResult.turns[t] IN
           \A j \in 1..Len(turn.resp.ToolCalls) :
             LET call == turn.resp.ToolCalls[j] IN
             ToolCallFails(call) =>
               /\ Len(turn.execs) = Len(turn.resp.ToolCalls)
               /\ turn.execs[j].res =
                    [ToolCallID |-> call.ID, Content |-> ToolFailureText(call), IsError |-> TRUE]
               /\ \E k \in 1..Len(HistoryAfter(t)) :
                    HistoryAfter(t)[k] = NewToolMessage(call.ID, ToolFailureText(call))
               /\ (t < WorkerBound => WorkerTurns > t)
      /\ (wResult.turns # <<>> =>
            wResult.err.Err \in {"", ErrProvider, ErrCanceled, ErrMaxIterations})

\* a worker that saw a missing tool and a failing tool and still succeeded
C8_Witness ==
    /\ WorkerDone
    /\ wResult.err = NoError
    /\ \E t \in 1..WorkerTurns :
         LET turn == wResult.turns[t] IN
         /\ \E j \in 1..Len(turn.execs) :
              turn.resp.ToolCalls[j].Name = "ghost" /\ turn.execs[j].res.IsError
         /\ \E j \in 1..Len(turn.execs) :
              turn.resp.ToolCalls[j].Name = "flaky" /\ turn.execs[j].ran
                 /\ turn.execs[j].res.IsError

(***************************************************************************)
(* llm/unified.go: provider routing.  A model name is a sequence of        *)
(* characters; a client is "openai", "anthropic", "ollama" or "nil".       *)
(***************************************************************************)
HasPrefix(s, prefix) ==
    /\ Len(s) >= Len(prefix)
    /\ SubSeq(s, 1, Len(prefix)) = prefix

TrimPrefix(s, prefix) ==
    IF HasPrefix(s, prefix) THEN SubSeq(s, Len(prefix) + 1, Len(s)) ELSE s

PrefixClaude == <<"c", "l", "a", "u", "d", "e", "-">>
PrefixGpt == <<"g", "p", "t", "-">>
PrefixO1 == <<"o", "1", "-">>
PrefixOllama == <<"o", "l", "l", "a", "m", "a", "/">>

\* the nil value of the interface type Client
NilClient == [dyn |-> "nil", ptr |-> "nil"]

\* a pointer field (*OpenAIClient, *AnthropicClient) stored in a value of
\* the interface type Client: the interface value holds the dynamic type
\* whether or not the pointer is nil, so it never equals NilClient
AsClient(dyn, ptr) == [dyn |-> dyn, ptr |-> ptr]

defaultClient(u) ==
    LET clients == <<AsClient("*OpenAIClient", u.openai),
                     AsClient("*AnthropicClient", u.anthropic),
                     AsClient("*OpenAIClient", u.ollama)>>
        live == {i \in 1..Len(clients) : clients[i] # NilClient}
    IN  IF live = {} THEN NilClient
        ELSE clients[CHOOSE i \in live : \A j \in live : i <= j]

resolveClient(u, model) ==
    LET prefixes == <<[prefix |-> PrefixClaude, strip |-> FALSE,
                       client |-> AsClient("*AnthropicClient", u.anthropic)],
                      [prefix |-> PrefixGpt, strip |-> FALSE,
                       client |-> AsClient("*OpenAIClient", u.openai)],
                      [prefix |-> PrefixO1, strip |-> FALSE,
                       client |-> AsClient("*OpenAIClient", u.openai)],
                      [prefix |-> PrefixOllama, strip |-> TRUE,
                       client |-> AsClient("*OpenAIClient", u.ollama)]>>
        hits == {i \in 1..Len(prefixes) :
                    HasPrefix(model, prefixes[i].prefix) /\ prefixes[i].client # NilClient}
    IN  IF hits # {}
        THEN LET p == prefixes[CHOOSE i \in hits : \A j \in hits : i <= j]
             IN  [client |-> p.client,
                  model |-> IF p.strip THEN TrimPrefix(model, p.prefix) ELSE model]
        ELSE [client |-> defaultClient(u), model |-> model]

\* NewUnifiedClient: a provider is configured when its key or URL is given
NewUnifiedClient(openAIKey, anthropicKey, ollamaURL) ==
    [openai |-> IF openAIKey THEN "openai" ELSE "nil",
     anthropic |-> IF anthropicKey THEN "anthropic" ELSE "nil",
     ollama |-> IF ollamaURL THEN "ollama" ELSE "nil"]

\* the model names the routing specification draws from: a recognized
\* prefix, a prefix cut short, or a prefix out of place, and a remainder
KnownPrefixes == {PrefixClaude, PrefixGpt, PrefixO1, PrefixOllama}
NameHeads ==
    KnownPrefixes
      \cup {SubSeq(q, 1, Len(q) - 1) : q \in KnownPrefixes}
      \cup {<<"x">> \o q : q \in KnownPrefixes}
      \cup {<<>>}
NameTails == KnownPrefixes \cup {<<>>, <<"4">>, <<"l", "l", "a", "m", "a", "3">>}
ModelNames == {h \o t : h \in NameHeads, t \in NameTails}

RouteInit ==
    /\ rClient \in {NewUnifiedClient(o, a, l) : o \in BOOLEAN, a \in BOOLEAN, l \in BOOLEAN}
    /\ rModel \in ModelNames
    /\ rPc = "ready"
    /\ rOut = [client |-> NilClient, model |-> <<>>]

Resolve ==
    /\ rPc = "ready"
    /\ rOut' = resolveClient(rClient, rModel)
    /\ rPc' = "done"
    /\ UNCHANGED <<rClient, rModel, evars, wvars, svars, hvars, mvars, nvars>>


\* the provider a recognized prefix names, "nil" for any other name
ProviderNamed(model) ==
    IF HasPrefix(model, PrefixClaude) THEN rClient.anthropic
    ELSE IF HasPrefix(model, PrefixGpt) \/ HasPrefix(model, PrefixO1) THEN rClient.openai
    ELSE IF HasPrefix(model, PrefixOllama) THEN rClient.ollama
    ELSE "nil"

\* C9: a name with a recognized prefix is dispatched to the provider the
\* prefix names when that provider is configured; any other name, and a
\* name whose provider is not configured, is dispatched to the first
\* configured provider in the order OpenAI, Anthropic, Ollama.
C9_ProviderRouting ==
    rPc = "done" =>
      IF ProviderNamed(rModel) # "nil"
      THEN rOut.client.ptr = ProviderNamed(rModel)
      ELSE /\ (rClient.openai # "nil" => rOut.client.ptr = "openai")
           /\ (rClient.openai = "nil" /\ rClient.anthropic # "nil" =>
                 rOut.client.ptr = "anthropic")
           /\ (rClient.openai = "nil" /\ rClient.anthropic = "nil"
                 /\ rClient.ollama # "nil" => rOut.client.ptr = "ollama")

(***************************************************************************)
(* config: node and pipeline configurations, and the pipelines the engine  *)
(* specification draws from.                                               *)
(***************************************************************************)
EdgeConfig(from, to) == [From |-> from, To |-> to]

IdPool == <<"a", "b", "c", "d", "e", "f">>
EdgePool ==
    <<EdgeConfig("a", "b"), EdgeConfig("a", "c"), EdgeConfig("b", "d"),
      EdgeConfig("c", "d"), EdgeConfig("b", "c"), EdgeConfig("d", "a")>>

\* the edges of EdgePool at the indices S, in declaration order
RECURSIVE PickEdges(_, _)
PickEdges(S, i) ==
    IF i > Len(EdgePool) THEN <<>>
    ELSE (IF i \in S THEN <<EdgePool[i]>> ELSE <<>>) \o PickEdges(S, i + 1)

EdgeChoices == {S \in SUBSET (1..Len(EdgePool)) : Cardinality(S) <= MaxEdges}
EntryChoices == {""} \cup {IdPool[i] : i \in 1..MaxNodes}

PipelineConfig(nodes, edges, entryNode) ==
    [Nodes |-> nodes, Edges |-> edges, EntryNode |-> entryNode]

\* every graph shape, with all nodes of one type
GraphPipelines ==
    {PipelineConfig([i \in 1..k |-> NewNodeConfig(IdPool[i], base)], PickEdges(S, 1), en) :
        k \in 0..MaxNodes, S \in EdgeChoices, en \in EntryChoices, base \in {"llm", "gate"}}

\* a chain and a diamond whose first node ranges over the other node types
HeadConfigs ==
    {[NewNodeConfig("a", t) EXCEPT !.TargetNodes = tg] :
        t \in {"router", "orchestrator", "coordinator", "evaluator", "synthesizer",
               "aggregator", "unknown"},
        tg \in {<<>>, <<"b", "c">>}}
      \cup {WorkerNode("a", tl, m) : tl \in {<<"echo">>, <<"nosuch">>}, m \in {0, 2}}

TypedPipelines ==
    {PipelineConfig(<<h>> \o [i \in 1..3 |-> NewNodeConfig(IdPool[i + 1], "llm")],
                    PickEdges(S, 1), "") :
        h \in HeadConfigs, S \in {{1, 3}, {1, 2, 3, 4}}}

(***************************************************************************)
(* The model server of an engine run: the reply to a node's chat call.     *)
(***************************************************************************)
Mocks == {"name", "blank", "route"}

MockReply(m, nodeID) ==
    IF m = "name" THEN Reply("out-" \o nodeID, 2, 1)
    ELSE IF m = "blank" THEN Reply("", 2, 1)
    ELSE Reply("c", 2, 1)

Script(head, tail) == [head |-> head, tail |-> tail]

ChatTypes == {"llm", "router", "orchestrator", "evaluator", "synthesizer"}

\* the replies of a model server that answers anything: the id of a declared
\* node or of no node
AnyReplies == {IdPool[i] : i \in 1..MaxLoopNodes} \cup {"z"}

\* what the model server may answer during one execution of node
EnvScripts(node) ==
    IF node.Type = "worker"
    THEN {Script(<<>>, FinalResponse), Script(<<ReplyCalls(<<"echo">>)>>, FinalResponse),
          Script(<<>>, ReplyCalls(<<"echo">>)), Script(<<>>, ReplyError(ErrProvider))}
    ELSE IF node.Type \in ChatTypes /\ mock = "any"
    THEN {Script(<<>>, Reply(c, 2, 1)) : c \in AnyReplies}
           \cup {Script(<<>>, ReplyError(ErrProvider))}
    ELSE IF node.Type \in ChatTypes
    THEN {Script(<<>>, MockReply(mock, node.ID)), Script(<<>>, ReplyError(ErrProvider))}
    ELSE {Script(<<>>, FinalResponse)}

(***************************************************************************)
(* engine/executor.go: Execute and the handlers of the node types.         *)
(***************************************************************************)
\* Client.Chat under ctx
Chat(ctxDone, script) == ChatWithTools(ctxDone, script, 1)

\* the shape shared by the handlers that make one Chat call: the error is
\* wrapped under the handler's name, the reply becomes the output
chatHandler(op, node, ctxDone, script, nextNodes) ==
    LET resp == Chat(ctxDone, script)
    IN  IF resp.err # ""
        THEN [err |-> NewAgentError(op, node.ID, resp.err), out |-> EmptyOutput]
        ELSE [err |-> NoError,
              out |-> [EmptyOutput EXCEPT !.Content = resp.Content,
                                          !.NextNodes = nextNodes,
                                          !.TokensIn = resp.PromptTokens,
                                          !.TokensOut = resp.CompletionTokens]]

executeLLM(node, nodeInput, ctxDone, script) ==
    chatHandler("executor.llm", node, ctxDone, script, <<>>)
executeRouter(node, nodeInput, ctxDone, script) ==
    chatHandler("executor.router", node, ctxDone, script,
                <<Chat(ctxDone, script).Content>>)
executeOrchestrator(node, nodeInput, ctxDone, script) ==
    chatHandler("executor.orchestrator", node, ctxDone, script, node.TargetNodes)
executeEvaluator(node, nodeInput, ctxDone, script) ==
    chatHandler("executor.evaluator", node, ctxDone, script, <<>>)
executeSynthesizer(node, nodeInput, ctxDone, script) ==
    chatHandler("executor.synthesizer", node, ctxDone, script, <<>>)

executeGate(node, nodeInput) ==
    [err |-> NoError, out |-> [EmptyOutput EXCEPT !.Content = nodeInput.Content]]
executeAggregator(node, nodeInput) ==
    [err |-> NoError, out |-> [EmptyOutput EXCEPT !.Content = nodeInput.Content]]
executeCoordinator(node, nodeInput) ==
    [err |-> NoError,
     out |-> [EmptyOutput EXCEPT !.Content = nodeInput.Content, !.NextNodes = node.TargetNodes]]

\* the number of tool calls a worker node executes (0 for any other node)
RECURSIVE SumLens(_, _)
SumLens(turns, i) ==
    IF i > Len(turns) THEN 0 ELSE Len(turns[i].execs) + SumLens(turns, i + 1)

ToolCallsMade(node, nodeInput, registry, ctxDone, script) ==
    IF node.Type = "worker"
    THEN SumLens(executeWorker(node, nodeInput, registry, ctxDone, script).turns, 1)
    ELSE 0

\* the model calls one execution of node makes
ModelCallsMade(node, nodeInput, registry, ctxDone, script) ==
    IF node.Type = "worker"
    THEN Len(executeWorker(node, nodeInput, registry, ctxDone, script).turns)
    ELSE IF node.Type \in ChatTypes THEN 1
    ELSE 0

Execute(node, nodeInput, registry, ctxDone, script) ==
    LET t == node.Type
        handled ==
          IF t = "llm" THEN executeLLM(node, nodeInput, ctxDone, script)
          ELSE IF t = "worker" THEN
            LET w == executeWorker(node, nodeInput, registry, ctxDone, script)
            IN  [err |-> w.err, out |-> w.out]
          ELSE IF t = "router" THEN executeRouter(node, nodeInput, ctxDone, script)
          ELSE IF t = "gate" THEN executeGate(node, nodeInput)
          ELSE IF t = "aggregator" THEN executeAggregator(node, nodeInput)
          ELSE IF t = "orchestrator" THEN executeOrchestrator(node, nodeInput, ctxDone, script)
          ELSE IF t = "evaluator" THEN executeEvaluator(node, nodeInput, ctxDone, script)
          ELSE IF t = "synthesizer" THEN executeSynthesizer(node, nodeInput, ctxDone, script)
          ELSE IF t = "coordinator" THEN executeCoordinator(node, nodeInput)
          ELSE [err |-> NewAgentError("executor.execute", node.ID, "unknown node type: " \o t),
                out |-> EmptyOutput]
    IN  IF handled.err # NoError
        THEN [err |-> handled.err, out |-> EmptyOutput]
        ELSE [err |-> NoError, out |-> [handled.out EXCEPT !.NodeID = node.ID]]

(***************************************************************************)
(* engine/engine.go: NewEngine's maps and the helpers of Run.              *)
(***************************************************************************)
NodeIDs(p) == {p.Nodes[i].ID : i \in 1..Len(p.Nodes)}

\* nodeMap: a later declaration of an id replaces an earlier one
nodeMap ==
    [id \in NodeIDs(pipeline) |->
        pipeline.Nodes[CHOOSE i \in 1..Len(pipeline.Nodes) :
            /\ pipeline.Nodes[i].ID = id
            /\ \A j \in 1..Len(pipeline.Nodes) : pipeline.Nodes[j].ID = id => j <= i]]

\* edges: the targets of each source node, in declaration order
edges ==
    [from \in {pipeline.Edges[i].From : i \in 1..Len(pipeline.Edges)} |->
        LET outgoing == SelectSeq(pipeline.Edges, LAMBDA e : e.From = from)
        IN  [i \in 1..Len(outgoing) |-> outgoing[i].To]]

\* entry selection that ignores the edges
findEntryNodeFirstDeclared(p) ==
    IF Len(p.Nodes) > 0 THEN p.Nodes[1].ID ELSE ""

findEntryNode(p) ==
    LET hasIncoming == {p.Edges[i].To : i \in 1..Len(p.Edges)}
        free == {i \in 1..Len(p.Nodes) : p.Nodes[i].ID \notin hasIncoming}
    IN  IF free # {} THEN p.Nodes[CHOOSE i \in free : \A j \in free : i <= j].ID
        ELSE IF Len(p.Nodes) > 0 THEN p.Nodes[1].ID
        ELSE ""

\* the orders in which a range over a Go map may visit its keys
MapOrders(keys) ==
    {o \in [1..Cardinality(keys) -> keys] :
        \A i, j \in 1..Cardinality(keys) : i # j => o[i] # o[j]}

\* findSourceNodes, ranging over e.edges in the order given
RECURSIVE findSourceNodes(_, _)
findSourceNodes(nodeID, order) ==
    IF order = <<>> THEN <<>>
    ELSE LET from == Head(order)
             hits == SelectSeq(edges[from], LAMBDA to : to = nodeID)
         IN  [i \in 1..Len(hits) |-> from] \o findSourceNodes(nodeID, Tail(order))

\* ExecutionContext.GetOutput: the latest output of nodeID in the history
GetOutput(history, nodeID) ==
    LET at == {i \in 1..Len(history) : history[i].NodeID = nodeID}
    IN  IF at = {} THEN [ok |-> FALSE, out |-> EmptyOutput]
        ELSE [ok |-> TRUE, out |-> history[CHOOSE i \in at : \A j \in at : j <= i]]

\* strings.Join
RECURSIVE Join(_, _)
Join(parts, sep) ==
    IF parts = <<>> THEN ""
    ELSE IF Len(parts) = 1 THEN parts[1]
    ELSE parts[1] \o sep \o Join(Tail(parts), sep)

buildContentFromSources(sources, history) ==
    LET have == SelectSeq(sources, LAMBDA from : GetOutput(history, from).ok)
    IN  Join([i \in 1..Len(have) |-> GetOutput(history, have[i]).out.Content], "\n\n")

buildNodeInput(nodeID, history, order) ==
    LET sources == findSourceNodes(nodeID, order)
        content == buildContentFromSources(sources, history)
    IN  [NodeID |-> nodeID,
         Content |-> IF content = "" THEN input ELSE content,
         Sources |-> sources]

\* predicate is given by its value on each id of nodes
\* filterNodes with a visited set kept on the engine, shared by its runs
filterNodesSharedVisited(nodes, predicate) ==
    SelectSeq(nodes, LAMBDA id : predicate[id] /\ \A q \in DOMAIN run : id \notin run[q].visited)

\* filterNodes that keeps every declared node, visited or not
filterNodesDeclared(nodes, predicate) == SelectSeq(nodes, LAMBDA id : id \in DOMAIN nodeMap)

filterNodes(nodes, predicate) == SelectSeq(nodes, LAMBDA id : predicate[id])

\* hops that add the static successors to the directed ones
getNextNodesBoth(nodeID, output) ==
    output.NextNodes \o (IF nodeID \in DOMAIN edges THEN edges[nodeID] ELSE <<>>)

getNextNodes(nodeID, output) ==
    IF Len(output.NextNodes) > 0 THEN output.NextNodes
    ELSE IF nodeID \in DOMAIN edges THEN edges[nodeID]
    ELSE <<>>

\* a final output taken from the front of the history
findFinalOutputFirst(history) ==
    IF Len(history) = 0 THEN EmptyOutput ELSE history[1]

findFinalOutput(history) ==
    IF Len(history) = 0 THEN EmptyOutput ELSE history[Len(history)]

Span(spanID, node, nodeInput, output) ==
    [SpanID |-> spanID, NodeID |-> node.ID, NodeType |-> node.Type,
     Input |-> nodeInput.Content, Output |-> output.Content,
     InputTokens |-> output.TokensIn, OutputTokens |-> output.TokensOut]

(***************************************************************************)
(* engine/engine.go: Engine.Run, one action per step of its loops.         *)
(***************************************************************************)
\* Duration of a node output: the ticks Execute took
NodeDuration == 1

\* Engine.recordMetrics
recordMetrics(c, nodeID, output) ==
    IF c = NilCollector THEN c
    ELSE Record(c, NodeMetrics(nodeID, output.TokensIn, output.TokensOut,
                               NodeDuration, TRUE))

Runs == {1, 2}

NoOutputs == [id \in {} |-> EmptyOutput]

NoRunResult ==
    [Nil |-> FALSE, Success |-> FALSE, FinalNode |-> "", Content |-> "", Error |-> NoError]

\* the locals of a Run call that has not begun
FreshRun ==
    [pc |-> "start", ctxDone |-> FALSE, entryNode |-> "",
     currentNodes |-> <<>>, unvisitedNodes |-> <<>>, idx |-> 1, nextNodes |-> <<>>,
     visited |-> {}, outputs |-> NoOutputs, spans |-> <<>>, History |-> <<>>,
     step |-> 0, calls |-> <<>>, layers |-> 0, result |-> NoRunResult]

Inputs == {"hello"}

EngineInit ==
    /\ \/ /\ pipeline \in GraphPipelines
          /\ mock \in Mocks
          /\ (\A i \in 1..Len(pipeline.Nodes) : pipeline.Nodes[i].Type = "gate")
                => mock = "name"
       \/ /\ pipeline \in TypedPipelines
          /\ mock \in Mocks
    /\ input \in Inputs
    /\ run = [r \in Runs |-> FreshRun]
    /\ collector = NewInMemoryCollector("p", 0)

\* the context given to the run is cancelled, or its deadline expires
Cancel(r) ==
    /\ run[r].pc \notin {"done", "off"}
    /\ ~run[r].ctxDone
    /\ run' = [run EXCEPT ![r].ctxDone = TRUE]
    /\ UNCHANGED <<pipeline, input, mock, collector, wvars, rvars, svars, hvars, mvars, nvars>>

\* Run up to the frontier loop: entry-node selection
RunStart(r) ==
    /\ run[r].pc = "start"
    /\ LET entryNode == IF pipeline.EntryNode = "" THEN findEntryNode(pipeline)
                        ELSE pipeline.EntryNode
       IN  run' = [run EXCEPT ![r] =
             IF entryNode = ""
             THEN [@ EXCEPT !.pc = "done",
                            !.result = [NoRunResult EXCEPT !.Nil = TRUE,
                                !.Error = NewAgentError("engine.run", "", ErrNodeNotFound)]]
             ELSE [@ EXCEPT !.pc = "loop", !.entryNode = entryNode,
                            !.currentNodes = <<entryNode>>]]
    /\ UNCHANGED <<pipeline, input, mock, collector, wvars, rvars, svars, hvars, mvars, nvars>>

\* the head of the frontier loop with a non-empty frontier: filter it
LayerStart(r) ==
    /\ run[r].pc = "loop"
    /\ Len(run[r].currentNodes) > 0
    /\ run' = [run EXCEPT ![r] =
         [@ EXCEPT !.pc = "layer", !.nextNodes = <<>>, !.idx = 1,
                   !.layers = @ + 1,
                   !.unvisitedNodes =
                      filterNodes(run[r].currentNodes,
                          [id \in {run[r].currentNodes[i] : i \in 1..Len(run[r].currentNodes)} |->
                              id \notin run[r].visited /\ id \in DOMAIN nodeMap])]]
    /\ UNCHANGED <<pipeline, input, mock, collector, wvars, rvars, svars, hvars, mvars, nvars>>

\* one iteration of the loop over unvisitedNodes
ExecNode(r) ==
    /\ run[r].pc = "layer"
    /\ run[r].idx <= Len(run[r].unvisitedNodes)
    /\ LET me == run[r]
           nodeID == me.unvisitedNodes[me.idx]
           node == nodeMap[nodeID]
       IN  \E order \in MapOrders(DOMAIN edges), script \in EnvScripts(node) :
             LET nodeInput == buildNodeInput(nodeID, me.History, order)
                 res == Execute(node, nodeInput, DefaultRegistry, me.ctxDone, script)
                 hops == IF res.err # NoError THEN <<>> ELSE getNextNodes(nodeID, res.out)
                 call == [node |-> nodeID, ctxDone |-> me.ctxDone,
                          input |-> nodeInput, err |-> res.err,
                          out |-> res.out, hops |-> hops,
                          toolCalls |-> ToolCallsMade(node, nodeInput, DefaultRegistry,
                                                      me.ctxDone, script),
                          modelCalls |-> ModelCallsMade(node, nodeInput, DefaultRegistry,
                                                        me.ctxDone, script)]
             IN  /\ collector' = IF res.err # NoError THEN collector
                                  ELSE recordMetrics(collector, nodeID, res.out)
                 /\ run' = [run EXCEPT ![r] =
                   IF res.err # NoError
                   THEN [@ EXCEPT !.pc = "done",
                                  !.visited = @ \cup {nodeID},
                                  !.step = @ + 1,
                                  !.calls = Append(@, call),
                                  !.result = [NoRunResult EXCEPT !.Error = res.err]]
                   ELSE [@ EXCEPT !.visited = @ \cup {nodeID},
                                  !.step = @ + 2,
                                  !.calls = Append(@, call),
                                  !.spans = Append(@, Span("span_" \o ToString(me.step + 2),
                                                           node, nodeInput, res.out)),
                                  !.outputs = (nodeID :> res.out) @@ @,
                                  !.History = Append(@, res.out),
                                  !.nextNodes = @ \o hops,
                                  !.idx = @ + 1]]
    /\ UNCHANGED <<pipeline, input, mock, wvars, rvars, svars, hvars, mvars, nvars>>

\* the end of a layer: the collected hops become the frontier
LayerEnd(r) ==
    /\ run[r].pc = "layer"
    /\ run[r].idx > Len(run[r].unvisitedNodes)
    /\ run' = [run EXCEPT ![r] = [@ EXCEPT !.pc = "loop", !.currentNodes = run[r].nextNodes]]
    /\ UNCHANGED <<pipeline, input, mock, collector, wvars, rvars, svars, hvars, mvars, nvars>>

\* the frontier is empty: the final output
RunFinish(r) ==
    /\ run[r].pc = "loop"
    /\ Len(run[r].currentNodes) = 0
    /\ LET finalOutput == findFinalOutput(run[r].History)
       IN  run' = [run EXCEPT ![r] =
             [@ EXCEPT !.pc = "done",
                       !.result = [NoRunResult EXCEPT !.Success = TRUE,
                                      !.FinalNode = finalOutput.NodeID,
                                      !.Content = finalOutput.Content]]]
    /\ UNCHANGED <<pipeline, input, mock, collector, wvars, rvars, svars, hvars, mvars, nvars>>

RunStep(r) ==
    \/ Cancel(r)
    \/ RunStart(r)
    \/ LayerStart(r)
    \/ ExecNode(r)
    \/ LayerEnd(r)
    \/ RunFinish(r)

(***************************************************************************)
(* The specifications.  Each runs one part of the program and leaves the   *)
(* others idle.                                                            *)
(***************************************************************************)
EngineIdle ==
    /\ pipeline = PipelineConfig(<<>>, <<>>, "")
    /\ input = ""
    /\ mock = "name"
    /\ run = [r \in Runs |-> FreshRun]
    /\ collector = NilCollector

WorkerIdle ==
    /\ wNode = WorkerNode("w", <<>>, 0)
    /\ wInput = [NodeID |-> "w", Content |-> "", Sources |-> <<>>]
    /\ wScript = Script(<<>>, FinalResponse)
    /\ wCtxDone = FALSE
    /\ wPc = "idle"
    /\ wResult = NoResult

RouteIdle ==
    /\ rClient = NewUnifiedClient(FALSE, FALSE, FALSE)
    /\ rModel = <<>>
    /\ rPc = "idle"
    /\ rOut = [client |-> NilClient, model |-> <<>>]

StoreIdle ==
    /\ traces = NoRows
    /\ pipelines = NoRows
    /\ sOut = [op |-> "none"]

HandlerIdle ==
    /\ hReq = [kind |-> "none"]
    /\ hPc = "idle"
    /\ sse = <<>>

ResolverIdle ==
    /\ mDefault = ""
    /\ mOverrides = NoRows
    /\ mOut = [op |-> "none"]

StreamIdle == strm = [pc |-> "idle"]

RegistryIdle ==
    /\ reg = [pc |-> "idle"]
    /\ regT = <<>>

CollectorIdle ==
    /\ coll = [pc |-> "idle"]
    /\ cOut = [op |-> "none"]

LaterIdle == StreamIdle /\ RegistryIdle /\ CollectorIdle

OthersIdle == StoreIdle /\ HandlerIdle /\ ResolverIdle /\ LaterIdle

\* one Engine.Run on one pipeline
Init == EngineInit /\ WorkerIdle /\ RouteIdle /\ OthersIdle
Next == RunStep(1)
Spec == Init /\ [][Next]_vars

\* two Engine.Run calls on the same engine and the same input
PairPipelines ==
    {p \in GraphPipelines :
        /\ Len(p.Nodes) = MaxNodes
        /\ p.EntryNode = ""
        /\ \A i \in 1..Len(p.Nodes) : p.Nodes[i].Type = "llm"}
PairInit ==
    /\ pipeline \in PairPipelines
    /\ mock = "name"
    /\ input \in Inputs
    /\ run = [r \in Runs |-> FreshRun]
    /\ collector = NewInMemoryCollector("p", 0)
    /\ WorkerIdle /\ RouteIdle /\ OthersIdle
PairNext == \E r \in Runs : RunStep(r)
SpecPair == PairInit /\ [][PairNext]_vars

\* one executeWorker call
WorkerSpecInit == WorkerInit /\ EngineIdle /\ RouteIdle /\ OthersIdle
WorkerNext == WorkerCancel \/ WorkerRun
SpecWorker == WorkerSpecInit /\ [][WorkerNext]_vars

\* one resolveClient call
RouteSpecInit == RouteInit /\ EngineIdle /\ WorkerIdle /\ OthersIdle
RouteNext == Resolve
SpecRoute == RouteSpecInit /\ [][RouteNext]_vars

(***************************************************************************)
(* Properties of Engine.Run.                                               *)
(***************************************************************************)
Returned(r) == run[r].pc = "done" /\ ~run[r].result.Nil
SpansOf(r, id) == {i \in 1..Len(run[r].spans) : run[r].spans[i].NodeID = id}
CalledNodes(r) == [i \in 1..Len(run[r].calls) |-> run[r].calls[i].node]

\* C1: in the result of every run, each key of Outputs has exactly one span
\* with that node_id, and each span's node_id is a key of Outputs.
C1_OneSpanPerOutput ==
    \A r \in Runs :
      Returned(r) =>
        /\ \A id \in DOMAIN run[r].outputs : Cardinality(SpansOf(r, id)) = 1
        /\ \A i \in 1..Len(run[r].spans) : run[r].spans[i].NodeID \in DOMAIN run[r].outputs

\* C3: a run on a pipeline with at least one node either succeeds with a
\* FinalNode that is the id of a declared node, or fails with an error.
C3_FinalNodeOrError ==
    \A r \in Runs :
      (run[r].pc = "done" /\ Len(pipeline.Nodes) >= 1) =>
        \/ /\ run[r].result.Success
           /\ run[r].result.FinalNode # ""
           /\ run[r].result.FinalNode \in NodeIDs(pipeline)
        \/ /\ ~run[r].result.Success
           /\ run[r].result.Error # NoError

\* the pipeline of the fan-in scenario: nodes a, b, c, edges a->c and b->c
FanInPipeline ==
    PipelineConfig([i \in 1..3 |-> NewNodeConfig(IdPool[i], "llm")],
                   <<EdgeConfig("a", "c"), EdgeConfig("b", "c")>>, "")

\* C4: a successful run of the fan-in pipeline executes a, b and c; c's
\* input is the outputs of a and b joined by a blank line, and c's Sources
\* are {a, b}.
C4_FanIn ==
    \A r \in Runs :
      (pipeline = FanInPipeline /\ mock = "name" /\ run[r].pc = "done"
          /\ run[r].result.Success) =>
        /\ {CalledNodes(r)[i] : i \in 1..Len(run[r].calls)} = {"a", "b", "c"}
        /\ \A i \in 1..Len(run[r].calls) :
             run[r].calls[i].node = "c" =>
               /\ run[r].calls[i].input.Content \in
                    {"out-a\n\nout-b", "out-b\n\nout-a"}
               /\ {run[r].calls[i].input.Sources[k] :
                      k \in 1..Len(run[r].calls[i].input.Sources)} = {"a", "b"}

\* C5: two successful runs on the same pipeline and input, with a model
\* whose reply is a function of its request, return the same spans in the
\* same order and the same final content, and gave every node the same
\* input (content and Sources).
C5_Deterministic ==
    (run[1].pc = "done" /\ run[2].pc = "done"
        /\ run[1].result.Success /\ run[2].result.Success) =>
      /\ run[1].spans = run[2].spans
      /\ run[1].result.Content = run[2].result.Content
      /\ [i \in 1..Len(run[1].calls) |-> run[1].calls[i].input]
           = [i \in 1..Len(run[2].calls) |-> run[2].calls[i].input]

\* C6: when Execute fails for a node, the run executes nothing further and
\* returns success=false with that error; Outputs and Spans hold exactly the
\* nodes that completed before, and nothing for the failing node.
C6_FailureStopsRun ==
    \A r \in Runs :
      \A i \in 1..Len(run[r].calls) :
        run[r].calls[i].err # NoError =>
          LET before == {run[r].calls[k].node : k \in 1..(i - 1)} IN
          /\ i = Len(run[r].calls)
          /\ run[r].pc = "done"
          /\ ~run[r].result.Success
          /\ run[r].result.Error = run[r].calls[i].err
          /\ DOMAIN run[r].outputs = before
          /\ {run[r].spans[k].NodeID : k \in 1..Len(run[r].spans)} = before
          /\ run[r].calls[i].node \notin DOMAIN run[r].outputs

\* C7: once the context is cancelled no node execution completes: every
\* Execute call begun under a cancelled context fails with the
\* cancellation cause, whatever the node's type, and the run returns
\* success=false with that cause as its error.
C7_CancellationStopsRun ==
    \A r \in Runs :
      run[r].pc = "done" =>
        \A i \in 1..Len(run[r].calls) :
          run[r].calls[i].ctxDone =>
            /\ run[r].calls[i].err.Err = ErrCanceled
            /\ ~run[r].result.Success
            /\ run[r].result.Error.Err = ErrCanceled

\* the declared nodes that are the target of no edge, by position
FreeNodes == {i \in 1..Len(pipeline.Nodes) :
                \A k \in 1..Len(pipeline.Edges) : pipeline.Edges[k].To # pipeline.Nodes[i].ID}

\* the node the run is to start at, "" when there is none
ExpectedEntry ==
    IF pipeline.EntryNode # "" THEN pipeline.EntryNode
    ELSE IF FreeNodes # {}
    THEN pipeline.Nodes[CHOOSE i \in FreeNodes : \A j \in FreeNodes : i <= j].ID
    ELSE IF Len(pipeline.Nodes) > 0 THEN pipeline.Nodes[1].ID
    ELSE ""

\* C10: the run starts at the declared entry_node when there is one, else
\* at the first declared node no edge points to, else at the first declared
\* node; with no nodes and no declared entry it returns an error wrapping
\* ErrNodeNotFound and executes nothing.
C10_EntrySelection ==
    \A r \in Runs :
      run[r].pc # "start" =>
        IF ExpectedEntry = ""
        THEN /\ run[r].pc = "done"
             /\ run[r].result.Nil
             /\ run[r].result.Error.Err = ErrNodeNotFound
             /\ run[r].calls = <<>>
        ELSE /\ run[r].entryNode = ExpectedEntry
             /\ (run[r].calls # <<>> => run[r].calls[1].node = ExpectedEntry)
             /\ (run[r].pc = "done" /\ ExpectedEntry \in NodeIDs(pipeline) =>
                    run[r].calls # <<>>)

\* a run without a declared entry whose first declared node has an incoming
\* edge starts at the first node that has none
C10_Witness ==
    /\ pipeline.EntryNode = ""
    /\ 1 \notin FreeNodes
    /\ FreeNodes # {}
    /\ run[1].calls # <<>>
    /\ run[1].calls[1].node = "b"

\* the targets of the edges declared from id, in declaration order
StaticTargets(id) ==
    LET outgoing == SelectSeq(pipeline.Edges, LAMBDA e : e.From = id)
    IN  [i \in 1..Len(outgoing) |-> outgoing[i].To]

\* a run whose first node is a router that the model answers with "c"
RoutedToC(r) ==
    /\ Len(pipeline.Nodes) > 0
    /\ pipeline.Nodes[1].Type = "router"
    /\ mock = "route"
    /\ run[r].calls # <<>>
    /\ run[r].calls[1].err = NoError

\* C11: a node that succeeds contributes to the next frontier exactly its
\* output's next_nodes when that list is not empty, and exactly the targets
\* of its outgoing edges otherwise; a router answered with the id of a
\* declared node schedules that node alone, and its other static successors
\* are not executed on its account.
C11_NextHops ==
    \A r \in Runs :
      /\ \A i \in 1..Len(run[r].calls) :
           LET call == run[r].calls[i] IN
           call.err = NoError =>
             call.hops = IF call.out.NextNodes # <<>> THEN call.out.NextNodes
                         ELSE StaticTargets(call.node)
      /\ (RoutedToC(r) /\ "c" \in NodeIDs(pipeline)) =>
            /\ run[r].calls[1].hops = <<"c">>
            /\ "b" \notin {run[r].calls[i].node : i \in 1..Len(run[r].calls)}
            /\ (Len(run[r].calls) > 1 => run[r].calls[2].node = "c")

\* a router with the static successors b and c was answered "c": c and its
\* successor d ran, b did not
C11_Witness ==
    /\ RoutedToC(1)
    /\ StaticTargets("a") = <<"b", "c">>
    /\ run[1].pc = "done"
    /\ run[1].result.Success
    /\ CalledNodes(1) = <<"a", "c", "d">>

\* C12: a successful run returns as FinalNode and Content the node id and
\* the content of the output appended to the history last, which is the
\* output of the node executed last; a successful run that executed no node
\* returns empty content.
C12_FinalOutputIsLast ==
    \A r \in Runs :
      (run[r].pc = "done" /\ run[r].result.Success) =>
        LET n == Len(run[r].calls) IN
        IF n = 0
        THEN run[r].result.Content = "" /\ run[r].result.FinalNode = ""
        ELSE /\ Len(run[r].History) = n
             /\ run[r].History[n] = run[r].calls[n].out
             /\ run[r].result.FinalNode = run[r].calls[n].node
             /\ run[r].result.Content = run[r].calls[n].out.Content

\* a successful run of three nodes whose outputs all differ
C12_Witness ==
    /\ run[1].pc = "done"
    /\ run[1].result.Success
    /\ Len(run[1].calls) = 3
    /\ mock = "name"
    /\ \A i \in 1..Len(pipeline.Nodes) : pipeline.Nodes[i].Type = "llm"
    /\ run[1].result.Content = "out-" \o run[1].calls[3].node

\* C13: when a worker node fails with ErrMaxIterations the run returns a
\* failure whose error names the worker node and unwraps to
\* ErrMaxIterations, the result has no final content, and the result's
\* spans hold a span for the worker node.
C13_MaxIterationsReported ==
    \A r \in Runs :
      \A i \in 1..Len(run[r].calls) :
        LET call == run[r].calls[i] IN
        (nodeMap[call.node].Type = "worker" /\ call.err.Err = ErrMaxIterations) =>
          /\ run[r].pc = "done"
          /\ ~run[r].result.Success
          /\ run[r].result.Error.Err = ErrMaxIterations
          /\ run[r].result.Error.Node = call.node
          /\ run[r].result.Content = ""
          /\ SpansOf(r, call.node) # {}

(***************************************************************************)
(* server/store: the trace store and the pipeline store.  Each is one SQL  *)
(* table with a primary key; a row holds the scalar columns and the JSON   *)
(* text of the slice columns.                                              *)
(***************************************************************************)
ErrNotFound == "not found"

\* a Go slice: nil, or a sequence of items
NilSlice == [nil |-> TRUE, items |-> <<>>]
Slice(items) == [nil |-> FALSE, items |-> items]

\* json.Marshal of a slice: a nil slice is the text null, any other an array
Marshal(slice) ==
    IF slice.nil THEN [json |-> "null", items |-> <<>>]
    ELSE [json |-> "array", items |-> slice.items]

\* json.Unmarshal into a nil slice: null leaves it nil
Unmarshal(text) ==
    IF text.json = "null" THEN NilSlice ELSE Slice(text.items)

SpanInfo(spanID, traceID, nodeID, nodeType, spanInput, spanOutput, tokensIn, tokensOut) ==
    [SpanID |-> spanID, TraceID |-> traceID, NodeID |-> nodeID, NodeType |-> nodeType,
     Input |-> spanInput, Output |-> spanOutput,
     InputTokens |-> tokensIn, OutputTokens |-> tokensOut,
     ToolCallCount |-> 0, IterationCount |-> 0]

TraceInfo(traceID, elapsed, tokensIn, tokensOut, toolCalls, status, output, spans) ==
    [TraceID |-> traceID, TotalElapsedMs |-> elapsed,
     TotalInputTokens |-> tokensIn, TotalOutputTokens |-> tokensOut,
     TotalToolCalls |-> toolCalls, Status |-> status, Output |-> output, Spans |-> spans]

ZeroTrace == TraceInfo("", 0, 0, 0, 0, "", "", NilSlice)

TraceRow(t) == [t EXCEPT !.Spans = Marshal(t.Spans)]
TraceOfRow(row) == [row EXCEPT !.Spans = Unmarshal(row.Spans)]

\* INSERT OR IGNORE: an existing row wins
TraceAddKeepFirst(rows, t) ==
    [err |-> "", rows |-> rows @@ (t.TraceID :> TraceRow(t))]

\* INSERT OR REPLACE / ON CONFLICT (trace_id) DO UPDATE
TraceAdd(rows, t) ==
    [err |-> "", rows |-> (t.TraceID :> TraceRow(t)) @@ rows]

TraceGet(rows, id) ==
    IF id \in DOMAIN rows
    THEN [err |-> "", trace |-> TraceOfRow(rows[id])]
    ELSE [err |-> ErrNotFound, trace |-> ZeroTrace]

\* the traces List returns (their order, by timestamp, is left out)
TraceList(rows) == {TraceOfRow(rows[id]) : id \in DOMAIN rows}

\* a delete that reports an absent row
TraceDeleteStrict(rows, id) ==
    IF id \in DOMAIN rows
    THEN [err |-> "", rows |-> [x \in DOMAIN rows \ {id} |-> rows[x]]]
    ELSE [err |-> ErrNotFound, rows |-> rows]

\* DELETE FROM traces WHERE trace_id = ?
TraceDelete(rows, id) ==
    [err |-> "", rows |-> [x \in DOMAIN rows \ {id} |-> rows[x]]]

\* SUM(column) over the rows with the keys ids
RECURSIVE SumColumn(_, _, _)
SumColumn(rows, ids, column) ==
    IF ids = {} THEN 0
    ELSE LET id == CHOOSE x \in ids : TRUE
         IN  rows[id][column] + SumColumn(rows, ids \ {id}, column)

\* a float64 that is a quotient of integers
Quotient(num, den) == [num |-> num, den |-> den]

\* an average truncated to an integer
TraceSummaryTruncated(rows) ==
    LET n == Cardinality(DOMAIN rows) IN
    [TotalTraces |-> n,
     TotalInputTokens |-> SumColumn(rows, DOMAIN rows, "TotalInputTokens"),
     TotalOutputTokens |-> SumColumn(rows, DOMAIN rows, "TotalOutputTokens"),
     TotalToolCalls |-> SumColumn(rows, DOMAIN rows, "TotalToolCalls"),
     AvgLatencyMs |-> IF n = 0 THEN Quotient(0, 1)
                      ELSE Quotient(SumColumn(rows, DOMAIN rows, "TotalElapsedMs") \div n, 1)]

\* SELECT COUNT(*), COALESCE(SUM(..), 0) .., COALESCE(AVG(total_elapsed_ms), 0)
TraceSummary(rows) ==
    LET n == Cardinality(DOMAIN rows) IN
    [TotalTraces |-> n,
     TotalInputTokens |-> SumColumn(rows, DOMAIN rows, "TotalInputTokens"),
     TotalOutputTokens |-> SumColumn(rows, DOMAIN rows, "TotalOutputTokens"),
     TotalToolCalls |-> SumColumn(rows, DOMAIN rows, "TotalToolCalls"),
     AvgLatencyMs |-> IF n = 0 THEN Quotient(0, 1)
                      ELSE Quotient(SumColumn(rows, DOMAIN rows, "TotalElapsedMs"), n)]

PipelineInfo(id, name, nodes) == [ID |-> id, Name |-> name, Nodes |-> nodes]
ZeroPipeline == PipelineInfo("", "", NilSlice)
PipelineRow(p) == [p EXCEPT !.Nodes = Marshal(p.Nodes)]
PipelineOfRow(row) == [row EXCEPT !.Nodes = Unmarshal(row.Nodes)]

\* INSERT OR REPLACE INTO pipelines
PipelineSave(rows, p) == [err |-> "", rows |-> (p.ID :> PipelineRow(p)) @@ rows]

PipelineGet(rows, id) ==
    IF id \in DOMAIN rows
    THEN [err |-> "", pipeline |-> PipelineOfRow(rows[id])]
    ELSE [err |-> ErrNotFound, pipeline |-> ZeroPipeline]

\* DELETE FROM pipelines WHERE id = ?
PipelineDelete(rows, id) ==
    [err |-> "", rows |-> [x \in DOMAIN rows \ {id} |-> rows[x]]]

(***************************************************************************)
(* The store specification: any sequence of operations on the two stores.  *)
(***************************************************************************)
TraceIDs == {"t1", "t2"}
PipelineIDs == {"p1", "p2"}

SpanSlices ==
    {NilSlice, Slice(<<SpanInfo("span_2", "t1", "a", "llm", "hello", "out-a", 2, 1)>>)}

StoreTraces ==
    {TraceInfo(id, e, ti, 1, tc, "success", "out", sp) :
        id \in TraceIDs, e \in {3, 4}, ti \in {0, 2}, tc \in {0, 1}, sp \in SpanSlices}

StorePipelines ==
    {PipelineInfo(id, name, nodes) :
        id \in PipelineIDs, name \in {"x", "y"}, nodes \in {Slice(<<"a">>)}}

StoreResult(op, id, had, err, val) ==
    [op |-> op, id |-> id, had |-> had, err |-> err, val |-> val]

StoreInit ==
    /\ traces = NoRows
    /\ pipelines = NoRows
    /\ sOut = [op |-> "none"]

StoreAdd ==
    \E t \in StoreTraces :
      LET res == TraceAdd(traces, t) IN
      /\ traces' = res.rows
      /\ sOut' = StoreResult("add", t.TraceID, t.TraceID \in DOMAIN traces, res.err, t)
      /\ UNCHANGED <<pipelines, evars, wvars, rvars, hvars, mvars, nvars>>

StoreGet ==
    \E id \in TraceIDs :
      LET res == TraceGet(traces, id) IN
      /\ sOut' = StoreResult("get", id, id \in DOMAIN traces, res.err, res.trace)
      /\ UNCHANGED <<traces, pipelines, evars, wvars, rvars, hvars, mvars, nvars>>

StoreDelete ==
    \E id \in TraceIDs :
      LET res == TraceDelete(traces, id) IN
      /\ traces' = res.rows
      /\ sOut' = StoreResult("delete", id, id \in DOMAIN traces, res.err, traces)
      /\ UNCHANGED <<pipelines, evars, wvars, rvars, hvars, mvars, nvars>>

StoreSummary ==
    /\ sOut' = StoreResult("summary", "", FALSE, "", TraceSummary(traces))
    /\ UNCHANGED <<traces, pipelines, evars, wvars, rvars, hvars, mvars, nvars>>

StoreSavePipeline ==
    \E p \in StorePipelines :
      LET res == PipelineSave(pipelines, p) IN
      /\ pipelines' = res.rows
      /\ sOut' = StoreResult("save", p.ID, p.ID \in DOMAIN pipelines, res.err, p)
      /\ UNCHANGED <<traces, evars, wvars, rvars, hvars, mvars, nvars>>

StoreGetPipeline ==
    \E id \in PipelineIDs :
      LET res == PipelineGet(pipelines, id) IN
      /\ sOut' = StoreResult("getPipeline", id, id \in DOMAIN pipelines, res.err, res.pipeline)
      /\ UNCHANGED <<traces, pipelines, evars, wvars, rvars, hvars, mvars, nvars>>

StoreDeletePipeline ==
    \E id \in PipelineIDs :
      LET res == PipelineDelete(pipelines, id) IN
      /\ pipelines' = res.rows
      /\ sOut' = StoreResult("deletePipeline", id, id \in DOMAIN pipelines, res.err, pipelines)
      /\ UNCHANGED <<traces, evars, wvars, rvars, hvars, mvars, nvars>>

StoreSpecInit ==
    StoreInit /\ EngineIdle /\ WorkerIdle /\ RouteIdle /\ HandlerIdle /\ ResolverIdle
      /\ LaterIdle
StoreNext ==
    \/ StoreAdd
    \/ StoreGet
    \/ StoreDelete
    \/ StoreSummary
    \/ StoreSavePipeline
    \/ StoreGetPipeline
    \/ StoreDeletePipeline
SpecStore == StoreSpecInit /\ [][StoreNext]_vars

(***************************************************************************)
(* Properties of the stores.                                               *)
(***************************************************************************)
\* C17: TraceStore.Add is insert-or-replace by trace_id: in every state of
\* the store, Add(t) followed by Get(t.trace_id) returns t, and a second
\* Add(t) leaves the store as the first left it: the same Get result, the
\* same listed traces and the same Summary.
C17_AddIsUpsert ==
    /\ \A t \in StoreTraces :
         LET once == TraceAdd(traces, t)
             twice == TraceAdd(once.rows, t)
         IN  /\ once.err = "" /\ twice.err = ""
             /\ TraceGet(once.rows, t.TraceID) = [err |-> "", trace |-> t]
             /\ twice.rows = once.rows
             /\ TraceGet(twice.rows, t.TraceID) = TraceGet(once.rows, t.TraceID)
             /\ Cardinality(TraceList(twice.rows)) = Cardinality(TraceList(once.rows))
             /\ TraceSummary(twice.rows) = TraceSummary(once.rows)
             /\ \A id \in DOMAIN traces \ {t.TraceID} : once.rows[id] = traces[id]
    /\ (sOut.op = "add" =>
          /\ sOut.err = ""
          /\ TraceGet(traces, sOut.id) = [err |-> "", trace |-> sOut.val])

\* an Add replaced the stored trace of the same id by a different one,
\* beside another stored trace
C17_Witness ==
    /\ sOut.op = "add"
    /\ sOut.had
    /\ Cardinality(DOMAIN traces) = 2
    /\ TraceGet(traces, sOut.id).trace.TotalElapsedMs = 4
    /\ ~TraceGet(traces, sOut.id).trace.Spans.nil

\* C18: Delete(id) on the trace store and on the pipeline store returns
\* no error when id is absent and then changes no stored entity; a second
\* Delete(id) changes nothing more, and afterwards Get(id) fails with
\* ErrNotFound.
C18_DeleteIdempotent ==
    /\ \A id \in TraceIDs :
         LET once == TraceDelete(traces, id)
             twice == TraceDelete(once.rows, id)
         IN  /\ once.err = "" /\ twice.err = ""
             /\ (id \notin DOMAIN traces => once.rows = traces)
             /\ twice.rows = once.rows
             /\ TraceGet(twice.rows, id).err = ErrNotFound
             /\ \A x \in DOMAIN traces \ {id} :
                  x \in DOMAIN once.rows /\ once.rows[x] = traces[x]
    /\ \A id \in PipelineIDs :
         LET once == PipelineDelete(pipelines, id)
             twice == PipelineDelete(once.rows, id)
         IN  /\ once.err = "" /\ twice.err = ""
             /\ (id \notin DOMAIN pipelines => once.rows = pipelines)
             /\ twice.rows = once.rows
             /\ PipelineGet(twice.rows, id).err = ErrNotFound
             /\ \A x \in DOMAIN pipelines \ {id} :
                  x \in DOMAIN once.rows /\ once.rows[x] = pipelines[x]
    /\ (sOut.op = "delete" =>
          sOut.err = "" /\ (~sOut.had => traces = sOut.val))
    /\ (sOut.op = "deletePipeline" =>
          sOut.err = "" /\ (~sOut.had => pipelines = sOut.val))

\* a Delete of an absent id ran on a store that holds another trace
C18_Witness ==
    /\ sOut.op = "delete"
    /\ ~sOut.had
    /\ traces # NoRows
    /\ sOut.id \notin DOMAIN traces

\* the stored value of a column for id, 0 when id is not stored
ColumnOr0(id, column) == IF id \in DOMAIN traces THEN traces[id][column] ELSE 0

\* C19: Summary returns total_traces equal to the number of stored traces,
\* the input-token, output-token and tool-call totals equal to the sums
\* over the stored traces, and avg_latency_ms equal to the mean of their
\* total_elapsed_ms; on an empty store all five values are zero.
C19_SummaryTotals ==
    LET m == TraceSummary(traces)
        n == Cardinality(DOMAIN traces)
    IN  /\ m.TotalTraces = n
        /\ m.TotalInputTokens =
             ColumnOr0("t1", "TotalInputTokens") + ColumnOr0("t2", "TotalInputTokens")
        /\ m.TotalOutputTokens =
             ColumnOr0("t1", "TotalOutputTokens") + ColumnOr0("t2", "TotalOutputTokens")
        /\ m.TotalToolCalls =
             ColumnOr0("t1", "TotalToolCalls") + ColumnOr0("t2", "TotalToolCalls")
        /\ m.AvgLatencyMs.den > 0
        /\ m.AvgLatencyMs.num * n =
             (ColumnOr0("t1", "TotalElapsedMs") + ColumnOr0("t2", "TotalElapsedMs"))
                * m.AvgLatencyMs.den
        /\ (n = 0 => m.AvgLatencyMs.num = 0)
        /\ (sOut.op = "summary" => sOut.val = m)

\* Summary ran on two traces whose mean latency is not a whole number
C19_Witness ==
    /\ sOut.op = "summary"
    /\ sOut.val.TotalTraces = 2
    /\ sOut.val.AvgLatencyMs = Quotient(7, 2)
    /\ sOut.val.TotalToolCalls = 1
    /\ sOut.val.TotalInputTokens = 2

(***************************************************************************)
(* server/handlers.go: the chat handler.  A request carries a pipeline     *)
(* (run by an engine built for it), a pipeline that does not parse, or no  *)
(* pipeline (a direct chat over a stream of chunks).                       *)
(***************************************************************************)
\* AgentError.Error()
ErrorText(err) ==
    IF err.Node # "" THEN err.Op \o " [node=" \o err.Node \o "]: " \o err.Err
    ELSE err.Op \o ": " \o err.Err

NoMetadata == [set |-> FALSE, InputTokens |-> 0, OutputTokens |-> 0, ElapsedMs |-> 0]
Metadata(tokensIn, tokensOut, elapsed) ==
    [set |-> TRUE, InputTokens |-> tokensIn, OutputTokens |-> tokensOut, ElapsedMs |-> elapsed]

\* writeSSE: one event of the response
StreamEvent(content) == [type |-> "stream", content |-> content, metadata |-> NoMetadata]
EndEvent(metadata) == [type |-> "end", content |-> "", metadata |-> metadata]

\* the time a request takes, and the id its trace gets from the clock
ElapsedMs == 7
NewTraceID == "trace_1"

\* the sum of a token field over the values of the Outputs map
RECURSIVE SumOutputs(_, _, _)
SumOutputs(outputs, ids, field) ==
    IF ids = {} THEN 0
    ELSE LET id == CHOOSE x \in ids : TRUE
         IN  outputs[id][field] + SumOutputs(outputs, ids \ {id}, field)

\* engine spans to server spans
ConvertSpans(spans, traceID) ==
    [i \in 1..Len(spans) |->
        SpanInfo(spans[i].SpanID, traceID, spans[i].NodeID, spans[i].NodeType,
                 spans[i].Input, spans[i].Output,
                 spans[i].InputTokens, spans[i].OutputTokens)]

\* a chunk of a chat stream
NoUsage == [set |-> FALSE, PromptTokens |-> 0, CompletionTokens |-> 0]
Usage(promptTokens, completionTokens) ==
    [set |-> TRUE, PromptTokens |-> promptTokens, CompletionTokens |-> completionTokens]
StreamChunk(content, done, err, usage) ==
    [Content |-> content, Done |-> done, Error |-> err, Usage |-> usage]

\* the panic of the streaming request on the nil *OpenAIClient that
\* resolveClient selects for "gpt-4" when OpenAI is not configured
NilDereference == "panic: nil pointer dereference"

\* what ChatStreamWithMessages may give: an error, a channel of chunks, or
\* the panic
StreamOutcomes ==
    {[openErr |-> ErrProvider, chunks |-> <<>>],
     [openErr |-> "", chunks |-> <<StreamChunk("hi", FALSE, "", NoUsage),
                                   StreamChunk("", TRUE, "", Usage(2, 1))>>],
     [openErr |-> "", chunks |-> <<StreamChunk("", TRUE, ErrProvider, NoUsage)>>],
     [openErr |-> "", chunks |-> <<StreamChunk("", TRUE, "", NoUsage)>>],
     [openErr |-> NilDereference, chunks |-> <<>>],
     [openErr |-> "", chunks |-> <<StreamChunk("hi", FALSE, "", NoUsage),
                                   StreamChunk("", TRUE, ErrCanceled, NoUsage)>>]}

\* the loop over the chunks with an end event written where an error chunk
\* ends it
RECURSIVE readStreamEndOnError(_, _, _)
readStreamEndOnError(chunks, i, st) ==
    IF i > Len(chunks) THEN st
    ELSE LET chunk == chunks[i] IN
         IF chunk.Error # ""
         THEN [st EXCEPT !.events = @ \o <<StreamEvent("Error: " \o chunk.Error),
                                           EndEvent(NoMetadata)>>]
         ELSE readStreamEndOnError(chunks, i + 1,
                [fullContent |-> st.fullContent \o chunk.Content,
                 usage |-> IF chunk.Usage.set THEN chunk.Usage ELSE st.usage,
                 events |-> IF chunk.Content # ""
                            THEN Append(st.events, StreamEvent(chunk.Content))
                            ELSE st.events])

\* the loop over the chunks of the stream, which an error chunk ends
RECURSIVE readStream(_, _, _)
readStream(chunks, i, st) ==
    IF i > Len(chunks) THEN st
    ELSE LET chunk == chunks[i] IN
         IF chunk.Error # ""
         THEN [st EXCEPT !.events = Append(@, StreamEvent("Error: " \o chunk.Error))]
         ELSE readStream(chunks, i + 1,
                [fullContent |-> st.fullContent \o chunk.Content,
                 usage |-> IF chunk.Usage.set THEN chunk.Usage ELSE st.usage,
                 events |-> IF chunk.Content # ""
                            THEN Append(st.events, StreamEvent(chunk.Content))
                            ELSE st.events])

ChatRequest(kind, rp, unified, stream) ==
    [kind |-> kind, Pipeline |-> rp, unified |-> unified, stream |-> stream]

NoStream == [openErr |-> "", chunks |-> <<>>]

\* config.ParseNodeType: the node type of a name and whether the name is
\* known; NodeType is an int whose zero value is NodeLLM
KnownNodeTypes ==
    {"llm", "worker", "router", "gate", "aggregator", "orchestrator", "evaluator",
     "synthesizer", "coordinator"}
ParseNodeType(name) ==
    IF name \in KnownNodeTypes THEN [nt |-> name, ok |-> TRUE]
    ELSE [nt |-> "llm", ok |-> FALSE]

\* the runtimePipeline a request carries in pipeline_config
runtimeNode(id, typeName, toolNames) == [ID |-> id, Type |-> typeName, Tools |-> toolNames]
runtimePipeline(nodes, runtimeEdges) == [Nodes |-> nodes, Edges |-> runtimeEdges]
NoPipeline == runtimePipeline(<<>>, <<>>)

RuntimePipelines ==
    {runtimePipeline([i \in 1..Len(p.Nodes) |->
                         runtimeNode(p.Nodes[i].ID, p.Nodes[i].Type, p.Nodes[i].Tools)],
                     p.Edges) : p \in TypedPipelines}
      \cup {NoPipeline}

\* buildPipeline: the PipelineConfig of a runtimePipeline
buildPipeline(rp) ==
    PipelineConfig(
      [i \in 1..Len(rp.Nodes) |->
          [NewNodeConfig(rp.Nodes[i].ID, ParseNodeType(rp.Nodes[i].Type).nt)
              EXCEPT !.Tools = rp.Nodes[i].Tools]],
      rp.Edges, "")

\* the pipelines a chat request may carry
ChatPipelines == {buildPipeline(rp) : rp \in RuntimePipelines}

\* a request was decoded; run[1] is the engine run of a pipeline request,
\* and is off for the requests that build no engine
ChatInit ==
    /\ input \in Inputs
    /\ \/ /\ \E rp \in RuntimePipelines :
               /\ hReq = ChatRequest("pipeline", rp, TRUE, NoStream)
               /\ pipeline = buildPipeline(rp)
          /\ mock \in Mocks
          /\ run = [r \in Runs |-> FreshRun]
       \/ /\ hReq \in {ChatRequest("invalid", NoPipeline, TRUE, NoStream)}
                      \cup {ChatRequest("direct", NoPipeline, FALSE, NoStream)}
                      \cup {ChatRequest("direct", NoPipeline, TRUE, o) : o \in StreamOutcomes}
          /\ pipeline = PipelineConfig(<<>>, <<>>, "")
          /\ mock = "name"
          /\ run = [r \in Runs |-> [FreshRun EXCEPT !.pc = "off"]]
    /\ collector = NilCollector
    /\ hPc = "recv"
    /\ sse = <<>>
    /\ traces = NoRows
    /\ pipelines = NoRows
    /\ sOut = [op |-> "none"]

\* handleChat: the pipeline of the request does not parse
ChatInvalid ==
    /\ hPc = "recv"
    /\ hReq.kind = "invalid"
    /\ sse' = <<StreamEvent("Error: invalid pipeline config"), EndEvent(NoMetadata)>>
    /\ hPc' = "done"
    /\ UNCHANGED <<hReq, svars, evars, wvars, rvars, mvars, nvars>>

\* handleChat after eng.Run has returned
ChatRespond ==
    /\ hPc = "recv"
    /\ hReq.kind = "pipeline"
    /\ run[1].pc = "done"
    /\ LET result == run[1].result
           outputs == run[1].outputs
           totalIn == SumOutputs(outputs, DOMAIN outputs, "TokensIn")
           totalOut == SumOutputs(outputs, DOMAIN outputs, "TokensOut")
           traceID == NewTraceID
           spans == ConvertSpans(run[1].spans, traceID)
       IN  IF result.Error # NoError
           THEN /\ sse' = <<StreamEvent("Error: " \o ErrorText(result.Error)),
                             EndEvent(NoMetadata)>>
                /\ UNCHANGED traces
           ELSE /\ sse' = <<StreamEvent(result.Content),
                             EndEvent(Metadata(totalIn, totalOut, ElapsedMs))>>
                /\ traces' = TraceAdd(traces,
                                  TraceInfo(traceID, ElapsedMs, totalIn, totalOut, 0,
                                            "success", result.Content, Slice(spans))).rows
    /\ hPc' = "done"
    /\ UNCHANGED <<hReq, pipelines, sOut, evars, wvars, rvars, mvars, nvars>>

\* handleDirectChat; a panic of the handler writes nothing
DirectChat ==
    /\ hPc = "recv"
    /\ hReq.kind = "direct"
    /\ IF ~hReq.unified
       THEN /\ sse' = <<StreamEvent("Error: streaming not supported"), EndEvent(NoMetadata)>>
            /\ UNCHANGED traces
       ELSE IF hReq.stream.openErr = NilDereference
       THEN UNCHANGED <<sse, traces>>
       ELSE IF hReq.stream.openErr # ""
       THEN /\ sse' = <<StreamEvent("Error: " \o hReq.stream.openErr), EndEvent(NoMetadata)>>
            /\ traces' = TraceAdd(traces,
                              TraceInfo(NewTraceID, ElapsedMs, 0, 0, 0, "error",
                                        "Error: " \o hReq.stream.openErr, NilSlice)).rows
       ELSE LET st == readStream(hReq.stream.chunks, 1,
                                 [fullContent |-> "", usage |-> NoUsage, events |-> <<>>])
            IN  /\ sse' = Append(st.events,
                                 EndEvent(Metadata(st.usage.PromptTokens,
                                                   st.usage.CompletionTokens, ElapsedMs)))
                /\ traces' = TraceAdd(traces,
                                  TraceInfo(NewTraceID, ElapsedMs, st.usage.PromptTokens,
                                            st.usage.CompletionTokens, 0, "success",
                                            st.fullContent, NilSlice)).rows
    /\ hPc' = IF hReq.unified /\ hReq.stream.openErr = NilDereference
              THEN "panic" ELSE "done"
    /\ UNCHANGED <<hReq, pipelines, sOut, evars, wvars, rvars, mvars, nvars>>

ChatSpecInit == ChatInit /\ WorkerIdle /\ RouteIdle /\ ResolverIdle /\ LaterIdle
ChatNext ==
    \/ RunStep(1)
    \/ ChatInvalid
    \/ ChatRespond
    \/ DirectChat
SpecChat == ChatSpecInit /\ [][ChatNext]_vars

(***************************************************************************)
(* Properties of the chat handler.                                         *)
(***************************************************************************)
ChatDone == hPc = "done"

\* the request's run failed: Engine.Run returned an error, or the direct
\* chat's stream could not be opened or gave an error chunk
RunFailed ==
    \/ hReq.kind = "pipeline" /\ run[1].pc = "done" /\ run[1].result.Error # NoError
    \/ /\ hReq.kind = "direct"
       /\ hReq.unified
       /\ \/ hReq.stream.openErr # ""
          \/ \E i \in 1..Len(hReq.stream.chunks) : hReq.stream.chunks[i].Error # ""

\* the texts of the errors the request met
FailureTexts ==
    {ErrorText(run[1].result.Error), hReq.stream.openErr}
      \cup {hReq.stream.chunks[i].Error : i \in 1..Len(hReq.stream.chunks)}

StoredTraces == {TraceGet(traces, id).trace : id \in DOMAIN traces}

\* C14: for a chat request whose run fails, the response carries a stream
\* event whose content is "Error: " and the error, followed by an end
\* event; a trace with status "error" is written to the trace store and no
\* trace with status "success".
C14_FailureIsReported ==
    (ChatDone /\ RunFailed) =>
      /\ \E i, j \in 1..Len(sse) :
           /\ i < j
           /\ sse[i].type = "stream"
           /\ \E text \in FailureTexts : text # "" /\ sse[i].content = "Error: " \o text
           /\ sse[j].type = "end"
      /\ \E t \in StoredTraces : t.Status = "error"
      /\ \A t \in StoredTraces : t.Status # "success"

RECURSIVE SumSpans(_, _, _)
SumSpans(items, i, field) ==
    IF i > Len(items) THEN 0 ELSE items[i][field] + SumSpans(items, i + 1, field)

\* C15: every trace the handler persists for a pipeline run has
\* total_input_tokens equal to the sum of the input tokens of its spans and
\* total_output_tokens equal to the sum of their output tokens.
C15_TraceTotalsMatchSpans ==
    (ChatDone /\ hReq.kind = "pipeline") =>
      \A t \in StoredTraces :
        /\ t.TotalInputTokens = SumSpans(t.Spans.items, 1, "InputTokens")
        /\ t.TotalOutputTokens = SumSpans(t.Spans.items, 1, "OutputTokens")

RECURSIVE SumCalls(_, _)
SumCalls(calls, i) ==
    IF i > Len(calls) THEN 0 ELSE calls[i].toolCalls + SumCalls(calls, i + 1)

\* C16: after a run whose worker nodes executed k tool calls in total, the
\* recorded trace has total_tool_calls = k, and the span of each node has
\* tool_call_count equal to the tool calls that node executed.
C16_ToolCallsRecorded ==
    (ChatDone /\ hReq.kind = "pipeline" /\ run[1].result.Success) =>
      \A t \in StoredTraces :
        /\ t.TotalToolCalls = SumCalls(run[1].calls, 1)
        /\ Len(t.Spans.items) = Len(run[1].calls)
        /\ \A i \in 1..Len(t.Spans.items) :
             t.Spans.items[i].ToolCallCount = run[1].calls[i].toolCalls

C37_WitnessNoStreamEvent ==
    ChatDone /\ hReq.kind = "direct" /\ Len(sse) = 1

\* ---------------------------------------------------------------------
\* Model resolution (engine/resolver.go, core/model.go)
\* ---------------------------------------------------------------------

\* core.ModelConfig; Temperature is kept in tenths, TopP is never set
ModelConfig(name, provider, temperature, maxTokens) ==
    [Name |-> name, Provider |-> provider,
     Temperature |-> temperature, MaxTokens |-> maxTokens]

\* core.DefaultModelConfig: temperature 0.7, 4096 tokens
DefaultModelConfig(name) == ModelConfig(name, "", 7, 4096)

\* the model configurations a node or an override may carry; the one with
\* the empty name is the zero value of a node without a model
ResolverModels ==
    {ModelConfig(n, p, 0, 0) : n \in {"", "m1", "m2"}, p \in {"", "openai"}}

ResolverNodeIDs == {"a", "b"}

\* the part of config.NodeConfig that Resolve reads
ResolverNodes == {[ID |-> id, Model |-> m] : id \in ResolverNodeIDs, m \in ResolverModels}

\* NewModelResolver: the default and an empty override map
NewModelResolver(defaultModel) ==
    [defaultModel |-> defaultModel, overrides |-> NoRows]

\* SetOverride: r.overrides[nodeID] = model
SetOverride(overrides, nodeID, model) ==
    [id \in DOMAIN overrides \cup {nodeID} |->
        IF id = nodeID THEN model ELSE overrides[id]]

\* Resolve with the node's own model consulted before the override
ResolveNodeFirst(defaultModel, overrides, node) ==
    IF node.Model.Name # "" THEN node.Model
    ELSE IF node.ID \in DOMAIN overrides THEN overrides[node.ID]
    ELSE defaultModel

\* ModelResolver.Resolve
ModelResolve(defaultModel, overrides, node) ==
    IF node.ID \in DOMAIN overrides THEN overrides[node.ID]
    ELSE IF node.Model.Name # "" THEN node.Model
    ELSE defaultModel

\* ModelResolver.ResolveModelName
ResolveModelName(defaultModel, overrides, node) ==
    ModelResolve(defaultModel, overrides, node).Name

\* what every node resolves to, as a table
Resolutions(defaultModel, overrides) ==
    [n \in ResolverNodes |-> ModelResolve(defaultModel, overrides, n)]

ResolverInit ==
    /\ \E name \in {"gpt-4", "m1"} :
         LET r == NewModelResolver(DefaultModelConfig(name))
         IN  /\ mDefault = r.defaultModel
             /\ mOverrides = r.overrides
    /\ mOut = [op |-> "none"]

\* one SetOverride call; the table of resolutions before it is kept
ResolverSetOverride ==
    /\ \E id \in ResolverNodeIDs, m \in ResolverModels :
         /\ mOverrides' = SetOverride(mOverrides, id, m)
         /\ mOut' = [op |-> "set", id |-> id, model |-> m,
                     before |-> Resolutions(mDefault, mOverrides)]
    /\ UNCHANGED <<mDefault, evars, wvars, rvars, svars, hvars, nvars>>

\* one Resolve call
ResolverResolve ==
    /\ \E n \in ResolverNodes :
         mOut' = [op |-> "resolve", node |-> n,
                  result |-> ModelResolve(mDefault, mOverrides, n),
                  name |-> ResolveModelName(mDefault, mOverrides, n)]
    /\ UNCHANGED <<mDefault, mOverrides, evars, wvars, rvars, svars, hvars, nvars>>

ResolverSpecInit ==
    ResolverInit /\ EngineIdle /\ WorkerIdle /\ RouteIdle /\ StoreIdle /\ HandlerIdle
      /\ LaterIdle

ResolverNext == ResolverSetOverride \/ ResolverResolve

SpecResolver == ResolverSpecInit /\ [][ResolverNext]_vars

\* C20: Resolve returns the override set for node.ID when there is one (even
\* if the node carries its own model), otherwise the node's own model when
\* its name is non-empty, otherwise the default model; and SetOverride for
\* one node id leaves the resolution of every node with another id as it was.
C20_ResolutionOrder ==
    /\ mOut.op = "resolve" =>
         LET n == mOut.node
         IN  /\ n.ID \in DOMAIN mOverrides => mOut.result = mOverrides[n.ID]
             /\ n.ID \notin DOMAIN mOverrides /\ n.Model.Name # ""
                  => mOut.result = n.Model
             /\ n.ID \notin DOMAIN mOverrides /\ n.Model.Name = ""
                  => mOut.result = mDefault
             /\ mOut.name = mOut.result.Name
    /\ mOut.op = "set" =>
         /\ mOverrides[mOut.id] = mOut.model
         /\ \A n \in ResolverNodes :
              n.ID # mOut.id =>
                ModelResolve(mDefault, mOverrides, n) = mOut.before[n]

\* an override was set for a node that carries its own, different model, and
\* the node was resolved to the override
C20_Witness ==
    /\ mOut.op = "resolve"
    /\ mOut.node.ID \in DOMAIN mOverrides
    /\ mOut.node.Model.Name # ""
    /\ mOverrides[mOut.node.ID] # mOut.node.Model
    /\ mOut.result = mOverrides[mOut.node.ID]
    /\ \E id \in ResolverNodeIDs : id \notin DOMAIN mOverrides

\* ---------------------------------------------------------------------
\* Streaming through the unified client (llm/unified.go)
\* ---------------------------------------------------------------------

\* what the non-streaming ChatWithMessages of the selected client returns
ChatResponse(content, usage, err) == [Content |-> content, Usage |-> usage, err |-> err]

ChatReplies ==
    {ChatResponse("hi", Usage(2, 1), ""), ChatResponse("", Usage(2, 0), ""),
     ChatResponse("", NoUsage, ErrProvider), ChatResponse("", NoUsage, ErrCanceled)}

\* the model names of the streaming calls
StreamModels ==
    {PrefixClaude \o <<"3">>, PrefixGpt \o <<"4">>, PrefixOllama \o <<"l">>, <<"m">>}

\* the fallback with the content and the final chunk in the opposite order
fallbackChunksDoneFirst(resp) ==
    IF resp.err # "" THEN <<StreamChunk("", TRUE, resp.err, NoUsage)>>
    ELSE <<StreamChunk("", TRUE, "", resp.Usage),
           StreamChunk(resp.Content, FALSE, "", NoUsage)>>

\* the chunks the fallback goroutine sends for a response, in order
fallbackChunks(resp) ==
    IF resp.err # "" THEN <<StreamChunk("", TRUE, resp.err, NoUsage)>>
    ELSE <<StreamChunk(resp.Content, FALSE, "", NoUsage),
           StreamChunk("", TRUE, "", resp.Usage)>>

\* capacity of the channel the fallback makes
ChanCap == 1

\* a line of the body of the streaming response, as readStream tells them
\* apart: a delta with content, the [DONE] marker, and the lines it skips
\* (blank, without the data prefix, malformed, or a delta without content)
BodyLines == {"delta", "[DONE]", "skip"}

\* what the streaming request of the OpenAI client meets: a failed request
\* or a status other than 200, or a body whose lines end with the end of the
\* body or with a read error
StreamBodies ==
    {[openErr |-> ErrProvider, lines |-> <<>>, readErr |-> ""]} \cup
    {[openErr |-> "", lines |-> l, readErr |-> e] :
        l \in UNION {[1..n -> BodyLines] : n \in 0..MaxBody},
        e \in {"", "unexpected EOF"}}

\* OpenAIClient.readStream for one ReadString: the chunk it sends (if any)
\* and whether it returns
readLine(body, pos) ==
    IF pos > Len(body.lines)
    THEN [send |-> <<StreamChunk("", TRUE, body.readErr, NoUsage)>>, ret |-> TRUE]
    ELSE IF body.lines[pos] = "[DONE]"
    THEN [send |-> <<StreamChunk("", TRUE, "", NoUsage)>>, ret |-> TRUE]
    ELSE IF body.lines[pos] = "delta"
    THEN [send |-> <<StreamChunk("hi", FALSE, "", NoUsage)>>, ret |-> FALSE]
    ELSE [send |-> <<>>, ret |-> FALSE]

StreamInit ==
    \E u \in {NewUnifiedClient(o, a, l) : o \in BOOLEAN, a \in BOOLEAN, l \in BOOLEAN},
       model \in StreamModels, reply \in ChatReplies, body \in StreamBodies :
      strm = [pc |-> "ready", u |-> u, model |-> model, reply |-> reply,
              body |-> body,
              client |-> NilClient, calls |-> 0, g |-> "none", sent |-> 0,
              buf |-> <<>>, closed |-> FALSE, recv |-> <<>>, recvClosed |-> FALSE]

\* ChatStreamWithMessages up to its return: the OpenAI client streams
\* natively (its request panics on a nil pointer and returns no stream
\* when it fails), any other client gets the goroutine of the fallback
StreamOpen ==
    /\ strm.pc = "ready"
    /\ LET client == resolveClient(strm.u, strm.model).client
       IN  strm' = IF client.dyn = "*OpenAIClient"
                   THEN IF client.ptr = "nil"
                        THEN [strm EXCEPT !.pc = "panic", !.client = client]
                        ELSE IF strm.body.openErr # ""
                        THEN [strm EXCEPT !.pc = "failed", !.client = client]
                        ELSE [strm EXCEPT !.pc = "native", !.client = client,
                                          !.g = "read", !.sent = 1]
                   ELSE [strm EXCEPT !.pc = "fallback", !.client = client, !.g = "call"]
    /\ UNCHANGED <<evars, wvars, rvars, svars, hvars, mvars, gvars, cvars>>

\* the goroutine calls ChatWithMessages; on a nil pointer the call panics
\* and the deferred close runs
FallbackCall ==
    /\ strm.pc = "fallback"
    /\ strm.g = "call"
    /\ strm' = IF strm.client.ptr = "nil"
               THEN [strm EXCEPT !.g = "panic", !.closed = TRUE]
               ELSE [strm EXCEPT !.g = "send", !.calls = @ + 1]
    /\ UNCHANGED <<evars, wvars, rvars, svars, hvars, mvars, gvars, cvars>>

\* the goroutine sends its next chunk when the channel has room
FallbackSend ==
    /\ strm.pc = "fallback"
    /\ strm.g = "send"
    /\ strm.sent < Len(fallbackChunks(strm.reply))
    /\ Len(strm.buf) < ChanCap
    /\ strm' = [strm EXCEPT !.buf = Append(@, fallbackChunks(strm.reply)[strm.sent + 1]),
                            !.sent = @ + 1]
    /\ UNCHANGED <<evars, wvars, rvars, svars, hvars, mvars, gvars, cvars>>

\* the goroutine returns: the deferred close
FallbackClose ==
    /\ strm.pc = "fallback"
    /\ strm.g = "send"
    /\ strm.sent = Len(fallbackChunks(strm.reply))
    /\ strm' = [strm EXCEPT !.g = "exit", !.closed = TRUE]
    /\ UNCHANGED <<evars, wvars, rvars, svars, hvars, mvars, gvars, cvars>>

\* readStream reads its next line once the receiver has taken the chunk
\* before (the channel is unbuffered), and sends what the line asks for
NativeRead ==
    /\ strm.pc = "native"
    /\ strm.g = "read"
    /\ Len(strm.buf) = 0
    /\ LET step == readLine(strm.body, strm.sent)
       IN  strm' = [strm EXCEPT !.buf = step.send, !.sent = @ + 1,
                                !.g = IF step.ret THEN "ret" ELSE "read"]
    /\ UNCHANGED <<evars, wvars, rvars, svars, hvars, mvars, gvars, cvars>>

\* readStream returns once its last chunk is taken: the deferred close
NativeClose ==
    /\ strm.pc = "native"
    /\ strm.g = "ret"
    /\ Len(strm.buf) = 0
    /\ strm' = [strm EXCEPT !.g = "exit", !.closed = TRUE]
    /\ UNCHANGED <<evars, wvars, rvars, svars, hvars, mvars, gvars, cvars>>

\* the caller receives from the channel: a chunk, or the end of the channel
StreamRecv ==
    /\ strm.pc \in {"fallback", "native"}
    /\ ~strm.recvClosed
    /\ \/ /\ Len(strm.buf) > 0
          /\ strm' = [strm EXCEPT !.recv = Append(@, Head(strm.buf)), !.buf = Tail(@)]
       \/ /\ Len(strm.buf) = 0
          /\ strm.closed
          /\ strm' = [strm EXCEPT !.recvClosed = TRUE]
    /\ UNCHANGED <<evars, wvars, rvars, svars, hvars, mvars, gvars, cvars>>

StreamSpecInit ==
    StreamInit /\ EngineIdle /\ WorkerIdle /\ RouteIdle /\ StoreIdle /\ HandlerIdle
      /\ ResolverIdle /\ RegistryIdle /\ CollectorIdle

StreamNext ==
    \/ StreamOpen \/ FallbackCall \/ FallbackSend \/ FallbackClose
    \/ NativeRead \/ NativeClose \/ StreamRecv

SpecStream == StreamSpecInit /\ [][StreamNext]_vars

Delivered == strm.recv \o strm.buf

\* C36: every chunk stream ChatStreamWithMessages returns, native or
\* synthesized, delivers exactly one chunk with done set, that chunk is the
\* last one and the channel is closed after it, and only that chunk carries
\* an error.
C36_OneFinalChunk ==
    strm.pc \in {"fallback", "native"} =>
      /\ \A i \in 1..(Len(Delivered) - 1) :
            ~Delivered[i].Done /\ Delivered[i].Error = ""
      /\ \A i \in 1..Len(Delivered) : Delivered[i].Error # "" => Delivered[i].Done
      /\ strm.closed => Len(Delivered) > 0 /\ Delivered[Len(Delivered)].Done
      /\ strm.recvClosed => Len(strm.recv) > 0 /\ strm.recv[Len(strm.recv)].Done

\* the same for the streams of a client that is not a nil pointer
C36_LiveClient ==
    strm.client.ptr # "nil" => C36_OneFinalChunk

\* ---------------------------------------------------------------------
\* Concurrent runs of one engine
\* ---------------------------------------------------------------------

\* the pipelines two runs of one engine execute at once: a chain, a
\* fan-out and a diamond of llm nodes, and a diamond under an orchestrator
ConcurrentPipelines ==
    {PipelineConfig([i \in 1..4 |-> NewNodeConfig(IdPool[i], "llm")], PickEdges(S, 1), "") :
        S \in {{1, 3}, {1, 2}, {1, 2, 3, 4}}}
      \cup {PipelineConfig(
              <<[NewNodeConfig("a", "orchestrator") EXCEPT !.TargetNodes = <<"b", "c">>]>>
                 \o [i \in 1..3 |-> NewNodeConfig(IdPool[i + 1], "llm")],
              PickEdges({1, 2, 3, 4}, 1), "")}

\* two Run calls on one engine that has a collector
ConcurrentInit ==
    /\ pipeline \in ConcurrentPipelines
    /\ mock = "name"
    /\ input \in Inputs
    /\ run = [r \in Runs |-> FreshRun]
    /\ collector = NewInMemoryCollector("p", 0)
    /\ WorkerIdle /\ RouteIdle /\ OthersIdle

ConcurrentNext == \E r \in Runs : RunStep(r)

SpecConcurrent == ConcurrentInit /\ [][ConcurrentNext]_vars

\* the calls of run r that returned an output, in order
OkCalls(r) == SelectSeq(run[r].calls, LAMBDA c : c.err = NoError)

\* the entry node Run starts from
EntryOf(p) == IF p.EntryNode = "" THEN findEntryNode(p) ELSE p.EntryNode

\* C22: whatever the interleaving of two runs of one engine, the execution
\* context, visited set, outputs and spans of each run hold exactly what its
\* own node executions produced, every node input is built from the run's own
\* earlier outputs, and a run that succeeds has executed the entry node and
\* every declared node its own outputs led to: each run is the run it would
\* have been alone.
C22_RunsIndependent ==
    \A r \in Runs :
      LET me == run[r]
          ok == OkCalls(r)
      IN  /\ me.History = [i \in 1..Len(ok) |-> ok[i].out]
          /\ me.visited = {me.calls[i].node : i \in 1..Len(me.calls)}
          /\ DOMAIN me.outputs = {ok[i].node : i \in 1..Len(ok)}
          /\ \A i \in 1..Len(ok) :
               (\A j \in (i + 1)..Len(ok) : ok[j].node # ok[i].node)
                  => me.outputs[ok[i].node] = ok[i].out
          /\ Len(me.spans) = Len(ok)
          /\ \A i \in 1..Len(ok) :
               /\ me.spans[i].NodeID = ok[i].node
               /\ me.spans[i].Input = ok[i].input.Content
               /\ me.spans[i].Output = ok[i].out.Content
          /\ \A i \in 1..Len(me.calls) :
               \E order \in MapOrders(DOMAIN edges) :
                 me.calls[i].input
                   = buildNodeInput(me.calls[i].node,
                       [k \in 1..(i - 1) |-> me.calls[k].out], order)
          /\ (me.pc = "done" /\ me.result.Success /\ EntryOf(pipeline) \in DOMAIN nodeMap) =>
               /\ Len(me.calls) > 0
               /\ me.calls[1].node = EntryOf(pipeline)
               /\ \A i \in 1..Len(ok) : \A k \in 1..Len(ok[i].hops) :
                    ok[i].hops[k] \in DOMAIN nodeMap => ok[i].hops[k] \in me.visited
               /\ me.result.Content = ok[Len(ok)].out.Content

\* both runs are under way at once, each with node executions of its own,
\* and they have got differently far
C22_Witness ==
    /\ run[1].pc = "layer"
    /\ run[2].pc = "layer"
    /\ Len(run[1].calls) >= 2
    /\ Len(run[2].calls) = 1

\* ---------------------------------------------------------------------
\* Unknown node types
\* ---------------------------------------------------------------------
ErrInvalidConfig == "invalid configuration"

\* the type the request declared for a node of the pipeline it carried
DeclaredType(id) ==
    LET ns == hReq.Pipeline.Nodes
    IN  ns[CHOOSE i \in 1..Len(ns) : ns[i].ID = id].Type

\* C23: a node whose declared type is not one of the nine known types is
\* not executed as a node of a known type: its execution returns no output
\* and fails with an ErrInvalidConfig error tagged with the node's id.
C23_UnknownTypeRejected ==
    hReq.kind = "pipeline" =>
      \A i \in 1..Len(run[1].calls) :
        LET c == run[1].calls[i]
        IN  DeclaredType(c.node) \notin KnownNodeTypes =>
              /\ c.err # NoError
              /\ c.err.Node = c.node
              /\ c.err.Err = ErrInvalidConfig

\* ---------------------------------------------------------------------
\* Workers whose tools are missing
\* ---------------------------------------------------------------------

\* C24: the execution of a worker node that declares a tool the registry
\* does not have makes no model call and executes no tool, fails with an
\* error that unwraps to ErrToolNotFound, and ends the run: the run returns
\* that error without success, with no output and no span for the node.
C24_MissingToolFailsWorker ==
    \A i \in 1..Len(run[1].calls) :
      LET c == run[1].calls[i]
          node == nodeMap[c.node]
      IN  (node.Type = "worker"
             /\ \E k \in 1..Len(node.Tools) : node.Tools[k] \notin DefaultRegistry) =>
            /\ c.err.Err = ErrToolNotFound
            /\ c.modelCalls = 0
            /\ c.toolCalls = 0
            /\ i = Len(run[1].calls)
            /\ run[1].pc = "done"
            /\ ~run[1].result.Success
            /\ run[1].result.Error = c.err
            /\ c.node \notin DOMAIN run[1].outputs
            /\ SpansOf(1, c.node) = {}

\* a run ended at its entry worker, which declares a tool nobody registered
C24_Witness ==
    /\ run[1].pc = "done"
    /\ Len(run[1].calls) = 1
    /\ nodeMap[run[1].calls[1].node].Tools = <<"nosuch">>
    /\ run[1].result.Error.Err = ErrToolNotFound

\* ---------------------------------------------------------------------
\* The worker's message history
\* ---------------------------------------------------------------------

\* C25: the first model turn of a worker is given one user message holding
\* the node input; a turn whose response has tool calls c1..cn extends the
\* history by one assistant message and then n tool messages, the i-th with
\* the id of ci, and the next turn is given exactly the extended history; a
\* turn without tool calls leaves the history as it was.
C25_HistoryOrder ==
    (WorkerDone /\ WorkerTurns > 0) =>
      /\ wResult.turns[1].request = <<NewUserMessage(wInput.Content)>>
      /\ \A t \in 1..WorkerTurns :
           LET turn == wResult.turns[t]
               calls == turn.resp.ToolCalls
               before == turn.request
               after == HistoryAfter(t)
               n == Len(calls)
           IN  IF turn.resp.err = "" /\ n > 0
               THEN /\ Len(after) = Len(before) + 1 + n
                    /\ SubSeq(after, 1, Len(before)) = before
                    /\ after[Len(before) + 1] = NewAssistantMessage(turn.resp.Content)
                    /\ \A i \in 1..n :
                         /\ after[Len(before) + 1 + i].Role = "tool"
                         /\ after[Len(before) + 1 + i].ToolCallID = calls[i].ID
                         /\ after[Len(before) + 1 + i].Content = turn.execs[i].res.Content
               ELSE /\ t = WorkerTurns
                    /\ after = before

\* a worker whose first response carried two tool calls, and which went on
\* to a second model turn
C25_Witness ==
    /\ WorkerDone
    /\ WorkerTurns >= 2
    /\ Len(wResult.turns[1].resp.ToolCalls) = 2
    /\ wResult.turns[1].resp.ToolCalls[1].ID # wResult.turns[1].resp.ToolCalls[2].ID
    /\ Len(wResult.turns[2].request) = 4

\* ---------------------------------------------------------------------
\* The tool registry under concurrent calls (tools/fetch_url.go)
\* ---------------------------------------------------------------------

\* a tools.Tool: its Name() and which implementation it is
Tool(name, impl) == [name |-> name, impl |-> impl]

RegTools == {Tool("x", 1), Tool("x", 2), Tool("y", 1)}
RegNameLists == {<<"x", "y">>}
RegThreads == {1, 2}

\* NewRegistry: an unlocked RWMutex (the goroutines holding it for writing, w,
\* and for reading, r) and an empty map
NewRegistry == [tools |-> NoRows, w |-> {}, r |-> {}]

\* a Lock that does not wait for the readers and the writer to leave
CanLockUnguarded(l) == TRUE

\* r.mu.Lock() can return: no writer and no reader holds the mutex
CanLock(l) == l.w = {} /\ l.r = {}

\* r.mu.RLock() can return: no writer holds the mutex
CanRLock(l) == l.w = {}

\* the calls a goroutine may make
RegCalls ==
    {[op |-> "Register", tool |-> t] : t \in RegTools}
      \cup {[op |-> "Get", name |-> n] : n \in {"x", "y"}}
      \cup {[op |-> "GetMultiple", names |-> ns] : ns \in RegNameLists}
      \cup {[op |-> "List"]}

\* the name a call is about, "" for the calls about several or none
CallName(call) ==
    IF call.op = "Register" THEN call.tool.name
    ELSE IF call.op = "Get" THEN call.name
    ELSE ""

\* what a lookup in the map gives: the tool and ok
Lookup(tools, name) ==
    IF name \in DOMAIN tools THEN [tool |-> tools[name], ok |-> TRUE]
    ELSE [tool |-> Tool("", 0), ok |-> FALSE]

IdleThread == [pc |-> "idle", n |-> 0, call |-> [op |-> "none"], acc |-> <<>>,
               expect |-> [any |-> TRUE], ret |-> [op |-> "none"], wrote |-> {}]

RegistryInit ==
    /\ reg = NewRegistry
    /\ regT = [i \in RegThreads |-> IdleThread]

\* a Register of the name is under way in a goroutine other than i
RegisterInFlight(i, name) ==
    \E j \in RegThreads \ {i} :
      regT[j].pc # "idle" /\ regT[j].call.op = "Register" /\ regT[j].call.tool.name = name

\* goroutine i calls the registry; a Get notes what the map holds for its
\* name unless a Register of that name is under way, and a Register makes
\* the result of every Get of its name that is under way open
RegCall(i) ==
    /\ regT[i].pc = "idle"
    /\ regT[i].n < MaxRegOps
    /\ \E call \in RegCalls :
         regT' = [j \in RegThreads |->
            IF j = i
            THEN [regT[i] EXCEPT !.pc = "lock", !.call = call, !.acc = <<>>,
                    !.expect = IF call.op = "Get" /\ ~RegisterInFlight(i, call.name)
                               THEN [any |-> FALSE, res |-> Lookup(reg.tools, call.name)]
                               ELSE [any |-> TRUE]]
            ELSE IF call.op = "Register" /\ regT[j].pc # "idle" /\ regT[j].call.op = "Get"
                      /\ regT[j].call.name = call.tool.name
                 THEN [regT[j] EXCEPT !.expect = [any |-> TRUE]]
                 ELSE regT[j]]
    /\ UNCHANGED <<reg, evars, wvars, rvars, svars, hvars, mvars, tvars, cvars>>

\* r.mu.Lock() or r.mu.RLock() returns
RegLock(i) ==
    /\ regT[i].pc = "lock"
    /\ IF regT[i].call.op = "Register"
       THEN CanLock(reg) /\ reg' = [reg EXCEPT !.w = @ \cup {i}]
       ELSE CanRLock(reg) /\ reg' = [reg EXCEPT !.r = @ \cup {i}]
    /\ regT' = [regT EXCEPT ![i].pc = "body"]
    /\ UNCHANGED <<evars, wvars, rvars, svars, hvars, mvars, tvars, cvars>>

\* one step of the body of the call, under the mutex
RegBody(i) ==
    /\ regT[i].pc = "body"
    /\ LET me == regT[i]
           call == me.call
       IN  \/ /\ call.op = "Register"
              /\ reg' = [reg EXCEPT !.tools = (call.tool.name :> call.tool) @@ @]
              /\ regT' = [regT EXCEPT ![i].pc = "unlock", ![i].acc = <<>>,
                                      ![i].wrote = @ \cup {call.tool}]
           \/ /\ call.op = "Get"
              /\ regT' = [regT EXCEPT ![i].pc = "unlock",
                                      ![i].acc = Lookup(reg.tools, call.name)]
              /\ UNCHANGED reg
           \/ /\ call.op = "GetMultiple"
              /\ Len(me.acc) < Len(call.names)
              /\ LET t == Lookup(reg.tools, call.names[Len(me.acc) + 1])
                 IN  regT' = IF t.ok
                             THEN [regT EXCEPT ![i].acc = Append(@, t.tool),
                                      ![i].pc = IF Len(me.acc) + 1 = Len(call.names)
                                                THEN "unlock" ELSE "body"]
                             ELSE [regT EXCEPT ![i].pc = "unlock",
                                      ![i].acc = NewAgentError("registry.get", "",
                                                               ErrToolNotFound)]
              /\ UNCHANGED reg
           \/ /\ call.op = "List"
              /\ LET listed == {me.acc[k] : k \in 1..Len(me.acc)}
                 IN  IF DOMAIN reg.tools \subseteq listed
                     THEN regT' = [regT EXCEPT ![i].pc = "unlock"]
                     ELSE \E name \in DOMAIN reg.tools \ listed :
                            regT' = [regT EXCEPT ![i].acc = Append(@, name)]
              /\ UNCHANGED reg
    /\ UNCHANGED <<evars, wvars, rvars, svars, hvars, mvars, tvars, cvars>>

\* the deferred Unlock or RUnlock, and the return of the call
RegUnlock(i) ==
    /\ regT[i].pc = "unlock"
    /\ reg' = IF regT[i].call.op = "Register"
              THEN [reg EXCEPT !.w = @ \ {i}]
              ELSE [reg EXCEPT !.r = @ \ {i}]
    /\ regT' = [regT EXCEPT ![i] =
                  [IdleThread EXCEPT !.n = regT[i].n + 1, !.wrote = regT[i].wrote,
                      !.ret = [op |-> regT[i].call.op, call |-> regT[i].call,
                               res |-> regT[i].acc, expect |-> regT[i].expect]]]
    /\ UNCHANGED <<evars, wvars, rvars, svars, hvars, mvars, tvars, cvars>>

RegistrySpecInit ==
    RegistryInit /\ EngineIdle /\ WorkerIdle /\ RouteIdle /\ StoreIdle /\ HandlerIdle
      /\ ResolverIdle /\ StreamIdle /\ CollectorIdle

RegistryNext == \E i \in RegThreads : RegCall(i) \/ RegLock(i) \/ RegBody(i) \/ RegUnlock(i)

SpecRegistry == RegistrySpecInit /\ [][RegistryNext]_vars

\* the tools that Register calls of a name have written to the map
Registered(name) ==
    {t \in UNION {regT[i].wrote : i \in RegThreads} : t.name = name}

\* C26: a goroutine writing the registry holds the mutex alone, readers may
\* hold it together; a name whose Register has returned stays in the map; a
\* List holds no name twice; a Get that no Register of its name overlapped
\* returns what the last Register of that name stored (or nothing when there
\* was none); a GetMultiple returns the tools in the order asked or fails.
C26_RegistryAtomic ==
    /\ Cardinality(reg.w) <= 1
    /\ reg.w # {} => reg.r = {}
    /\ \A i \in RegThreads :
         /\ i \in reg.w \cup reg.r <=> regT[i].pc \in {"body", "unlock"}
         /\ i \in reg.w => regT[i].call.op = "Register"
    /\ \A i \in RegThreads :
         LET ret == regT[i].ret IN
         /\ ret.op = "Register" =>
              /\ ret.call.tool.name \in DOMAIN reg.tools
              /\ reg.tools[ret.call.tool.name] \in Registered(ret.call.tool.name)
         /\ ret.op = "List" =>
              \A a, b \in 1..Len(ret.res) : ret.res[a] = ret.res[b] => a = b
         /\ (ret.op = "Get" /\ ~ret.expect.any) => ret.res = ret.expect.res
         /\ (ret.op = "Get" /\ ret.res.ok) =>
              ret.res.tool \in Registered(ret.call.name)
         /\ ret.op = "GetMultiple" =>
              \/ ret.res = NewAgentError("registry.get", "", ErrToolNotFound)
              \/ /\ Len(ret.res) = Len(ret.call.names)
                 /\ \A k \in 1..Len(ret.res) : ret.res[k].name = ret.call.names[k]
    /\ \A n \in DOMAIN reg.tools : reg.tools[n].name = n

\* a Get that no Register overlapped returned the tool another goroutine had
\* registered, and both goroutines now hold the mutex for reading
C26_Witness ==
    /\ regT[1].ret.op = "Get"
    /\ ~regT[1].ret.expect.any
    /\ regT[1].ret.res.ok
    /\ regT[2].ret.op = "Register"
    /\ regT[1].ret.res.tool = regT[2].ret.call.tool
    /\ reg.r = {1, 2}

(***************************************************************************)
(* The in-memory metrics collector on its own: Record, Flush and Reset in   *)
(* any order.  coll holds the collector, the clock and the records made     *)
(* since the last Reset; cOut holds the last call and what it returned.     *)
(***************************************************************************)
CollectorMetrics ==
    {NodeMetrics(id, tin, tout, d, TRUE) :
        id \in {"a", "b"}, tin \in {1}, tout \in {0, 3}, d \in {1, 2}}

CollectorInit ==
    /\ coll = [pc |-> "ready", c |-> NewInMemoryCollector("p", 0), now |-> 0,
               log |-> <<>>]
    /\ cOut = [op |-> "none"]

CollectorRecord ==
    /\ coll.pc = "ready"
    /\ coll.now < MaxCollOps
    /\ \E m \in CollectorMetrics :
         /\ coll' = [coll EXCEPT !.c = Record(@, m), !.now = @ + 1,
                                 !.log = Append(@, m)]
         /\ cOut' = [op |-> "Record", before |-> coll.c]
    /\ UNCHANGED <<evars, wvars, rvars, svars, hvars, mvars, tvars, gvars>>

CollectorFlush ==
    /\ coll.pc = "ready"
    /\ coll.now < MaxCollOps
    /\ coll' = [coll EXCEPT !.now = @ + 1]
    /\ cOut' = [op |-> "Flush", before |-> coll.c, res |-> Flush(coll.c, coll.now + 1)]
    /\ UNCHANGED <<evars, wvars, rvars, svars, hvars, mvars, tvars, gvars>>

CollectorReset ==
    /\ coll.pc = "ready"
    /\ coll.now < MaxCollOps
    /\ coll' = [coll EXCEPT !.c = Reset(@, coll.now + 1), !.now = @ + 1,
                            !.log = <<>>]
    /\ cOut' = [op |-> "Reset", before |-> coll.c]
    /\ UNCHANGED <<evars, wvars, rvars, svars, hvars, mvars, tvars, gvars>>

CollectorSpecInit ==
    CollectorInit /\ EngineIdle /\ WorkerIdle /\ RouteIdle /\ StoreIdle /\ HandlerIdle
      /\ ResolverIdle /\ StreamIdle /\ RegistryIdle

CollectorNext == CollectorRecord \/ CollectorFlush \/ CollectorReset

SpecCollector == CollectorSpecInit /\ [][CollectorNext]_vars

\* the places of the log that hold the most recent record of their node
LastPlaces(log) ==
    {k \in 1..Len(log) : \A j \in (k + 1)..Len(log) : log[j].NodeID # log[k].NodeID}

\* the tokens and the durations of the most recent records, place by place
RECURSIVE LogTotal(_, _, _)
LogTotal(log, k, field) ==
    IF k = 0 THEN 0
    ELSE (IF k \notin LastPlaces(log) THEN 0
          ELSE IF field = "tokens" THEN log[k].TokensIn + log[k].TokensOut
          ELSE log[k].Duration)
           + LogTotal(log, k - 1, field)

\* C27: a Flush returns, for each node recorded since the last Reset, its most
\* recent record, with total tokens and total duration summed over exactly
\* those records; it leaves the collector as it was; right after a Reset it
\* returns an empty map and zero totals.
C27_FlushSummarises ==
    cOut.op = "Flush" =>
      /\ DOMAIN cOut.res.NodeMetrics = {coll.log[k].NodeID : k \in 1..Len(coll.log)}
      /\ \A k \in LastPlaces(coll.log) :
           cOut.res.NodeMetrics[coll.log[k].NodeID] = coll.log[k]
      /\ cOut.res.TotalTokens = LogTotal(coll.log, Len(coll.log), "tokens")
      /\ cOut.res.TotalDuration = LogTotal(coll.log, Len(coll.log), "duration")
      /\ coll.c = cOut.before
      /\ coll.log = <<>> =>
           /\ cOut.res.NodeMetrics = NoRows
           /\ cOut.res.TotalTokens = 0
           /\ cOut.res.TotalDuration = 0

\* a Flush after a node was recorded twice with different metrics and another
\* node once
C27_Witness ==
    /\ cOut.op = "Flush"
    /\ Len(coll.log) = 3
    /\ coll.log[1].NodeID = coll.log[3].NodeID
    /\ coll.log[1] # coll.log[3]
    /\ coll.log[2].NodeID # coll.log[1].NodeID
    /\ cOut.res.TotalTokens > 0

\* a Flush right after a Reset that followed a Record
C27_WitnessReset ==
    /\ cOut.op = "Flush"
    /\ coll.log = <<>>
    /\ coll.c.startTime > 1

\* C28: the metrics the engine's collector reports when a run has ended hold
\* only nodes that run executed, with the metrics of that run's own outputs:
\* nothing another run of the engine recorded is visible in them.
C28_MetricsPerRun ==
    \A r \in Runs :
      run[r].pc = "done" =>
        LET ok == OkCalls(r)
            reported == Flush(collector, 0).NodeMetrics
        IN  DOMAIN reported \subseteq {ok[i].node : i \in 1..Len(ok)}

\* C29: a worker whose tools resolved makes at least one model call whatever
\* MaxIter its config carries, never more than MaxIter calls when MaxIter is
\* positive and never more than 10 otherwise, and it stops short of that
\* number only on a response without tool calls or a failed model call.
C29_PositiveBound ==
    (WorkerDone /\ wResult.err.Op # "registry.get") =>
      LET bound == IF wNode.MaxIter > 0 THEN wNode.MaxIter ELSE 10
          last == wResult.turns[WorkerTurns].resp
      IN  /\ WorkerTurns >= 1
          /\ WorkerTurns <= bound
          /\ WorkerTurns < bound => (last.err # "" \/ ~HasToolCalls(last))
          /\ \A t \in 1..(WorkerTurns - 1) :
               wResult.turns[t].resp.err = "" /\ HasToolCalls(wResult.turns[t].resp)

\* a worker built with a negative MaxIter ran the loop ten times
C29_Witness ==
    /\ WorkerDone
    /\ wNode.MaxIter < 0
    /\ WorkerTurns = 10
    /\ HasToolCalls(wResult.turns[10].resp)

\* C30: within one run Executor.Execute is invoked at most once for each
\* node id.
C30_ExecuteOncePerNode ==
    \A r \in Runs :
      \A i, j \in 1..Len(run[r].calls) :
        run[r].calls[i].node = run[r].calls[j].node => i = j

\* the static predecessors of a node: the From of every declared edge to it
Predecessors(id) ==
    {pipeline.Edges[k].From : k \in {e \in 1..Len(pipeline.Edges) : pipeline.Edges[e].To = id}}

\* C31: whenever a node executes, every other static predecessor of it that
\* executes at any point of the run has already executed and its output is
\* part of the node's input.
C31_PredecessorsFirst ==
    \A r \in Runs :
      \A i, j \in 1..Len(run[r].calls) :
        LET n == run[r].calls[i].node
            p == run[r].calls[j].node
        IN  (p # n /\ p \in Predecessors(n)) => j < i

\* the calls of run r before call i that recorded an output of node p
RecordedBefore(r, i, p) ==
    {j \in 1..(i - 1) : run[r].calls[j].node = p /\ run[r].calls[j].err = NoError}

\* C32: a node's content is the run's input only when none of its sources
\* has a recorded output; when at least one has, whatever its content, the
\* node's content is the recorded outputs of its sources joined by a blank
\* line.
C32_InputOnlyWithoutOutputs ==
    \A r \in Runs :
      \A i \in 1..Len(run[r].calls) :
        LET call == run[r].calls[i]
            have == SelectSeq(call.input.Sources,
                              LAMBDA p : RecordedBefore(r, i, p) # {})
            latest == [k \in 1..Len(have) |->
                         LET at == RecordedBefore(r, i, have[k])
                         IN  run[r].calls[CHOOSE j \in at : \A q \in at : q <= j].out.Content]
        IN  call.input.Content = IF have = <<>> THEN input ELSE Join(latest, "\n\n")

\* C34: the model name handed to the selected client is the incoming name,
\* with the ollama/ prefix removed when and only when the selected client is
\* the Ollama client and the name carries that prefix.
C34_ModelNamePassed ==
    rPc = "done" =>
      rOut.model = IF rOut.client.ptr = "ollama" /\ HasPrefix(rModel, PrefixOllama)
                   THEN TrimPrefix(rModel, PrefixOllama)
                   ELSE rModel

(***************************************************************************)
(* Engine.Run on graphs with self-loops and cycles, of llm nodes that       *)
(* follow the declared edges or of routers that may name any node next.     *)
(* Every Execute call returns, and the run is taken to make progress:       *)
(* weak fairness of its steps.                                               *)
(***************************************************************************)
LoopEdgePool ==
    <<EdgeConfig("a", "a"), EdgeConfig("a", "b"), EdgeConfig("b", "a"),
      EdgeConfig("b", "c"), EdgeConfig("c", "a")>>

\* the edges of LoopEdgePool at the indices S, in declaration order
RECURSIVE PickLoopEdges(_, _)
PickLoopEdges(S, i) ==
    IF i > Len(LoopEdgePool) THEN <<>>
    ELSE (IF i \in S THEN <<LoopEdgePool[i]>> ELSE <<>>) \o PickLoopEdges(S, i + 1)

LoopPipelines ==
    {PipelineConfig([i \in 1..MaxLoopNodes |-> NewNodeConfig(IdPool[i], t)],
                    PickLoopEdges(S, 1), "a") :
        S \in SUBSET (1..Len(LoopEdgePool)), t \in {"llm", "router"}}

LoopInit ==
    /\ pipeline \in LoopPipelines
    /\ mock = IF pipeline.Nodes[1].Type = "router" THEN "any" ELSE "name"
    /\ input \in Inputs
    /\ run = [r \in Runs |-> FreshRun]
    /\ collector = NilCollector
    /\ WorkerIdle /\ RouteIdle /\ OthersIdle

\* the context of the run is not cancelled
LoopNext == RunStart(1) \/ LayerStart(1) \/ ExecNode(1) \/ LayerEnd(1) \/ RunFinish(1)

SpecLoop == LoopInit /\ [][LoopNext]_vars /\ WF_vars(LoopNext)

\* C33: every run ends, and it never starts more frontier layers than the
\* pipeline declares nodes, plus one.
C33_RunTerminates ==
    /\ <>(run[1].pc = "done")
    /\ [](run[1].layers <= Len(pipeline.Nodes) + 1)

\* a run around a cycle through every declared node ended after one layer
\* for each node and a last layer that held only the visited entry node
C33_Witness ==
    /\ run[1].pc = "done"
    /\ run[1].layers = Len(pipeline.Nodes) + 1
    /\ Len(run[1].calls) = Len(pipeline.Nodes)
    /\ run[1].currentNodes = <<>>
    /\ run[1].result.Success

ErrInvalidEdge == "invalid edge configuration"

\* an edge of the pipeline names a node that is not declared
DanglingEdge(p) ==
    \E k \in 1..Len(p.Edges) : p.Edges[k].From \notin NodeIDs(p) \/ p.Edges[k].To \notin NodeIDs(p)

\* C39: a pipeline with an edge endpoint that names no declared node is not
\* executed: no node of it runs, and the run ends with ErrInvalidEdge.
C39_EdgesResolve ==
    \A r \in Runs :
      DanglingEdge(pipeline) =>
        /\ run[r].calls = <<>>
        /\ run[r].pc = "done" => run[r].result.Error.Err = ErrInvalidEdge

RECURSIVE TurnTokens(_, _)
TurnTokens(n, field) ==
    IF n = 0 THEN 0
    ELSE (IF field = "in" THEN wResult.turns[n].resp.PromptTokens
          ELSE wResult.turns[n].resp.CompletionTokens)
           + TurnTokens(n - 1, field)

\* C38: the output of a worker that succeeds carries as TokensIn and
\* TokensOut the prompt and completion tokens summed over all its model
\* turns, the final turn without tool calls included.
C38_WorkerTokenTotals ==
    (WorkerDone /\ wResult.err = NoError) =>
      /\ wResult.out.TokensIn = TurnTokens(WorkerTurns, "in")
      /\ wResult.out.TokensOut = TurnTokens(WorkerTurns, "out")

\* a worker that succeeded on its second turn, after a turn of tool calls
C38_Witness ==
    /\ WorkerDone
    /\ wResult.err = NoError
    /\ WorkerTurns = 2
    /\ HasToolCalls(wResult.turns[1].resp)
    /\ wResult.out.TokensIn = 8
    /\ wResult.out.TokensOut = 6

====
